---------------------------- MODULE Spec2Model ----------------------------
(***************************************************************************)
(* A model of the yep compiler passes: Tokenizer (src/src/tokenizer.rs),   *)
(* Parser (src/src/parser.rs), PartialEvaluator                            *)
(* (src/src/partial_evaluator.rs), RemoveComplexOperandsPass               *)
(* (src/src/remove_complex_operands.rs) and X86AssemblyCodegen             *)
(* (src/src/codegen.rs), driven as in main (src/src/main.rs).              *)
(*                                                                         *)
(* Strings are sequences of one-character strings, so that the tokenizer   *)
(* can index them.  An Option is a sequence of length 0 (None) or 1        *)
(* (Some).  An i64 is three limbs <<top, mid, low>> of value               *)
(* top * 2^42 + mid * 2^21 + low with top signed, since the integers of    *)
(* the model checker are narrower than 64 bits.                            *)
(***************************************************************************)
EXTENDS Integers, Sequences, FiniteSets, TLC

VARIABLES
    pc,             \* the pass that runs: "tokenize", "parse", "evaluate",
                    \* "anf", "generate"; or "done"; or "panic"
    build,          \* "debug": arithmetic overflow panics; "release": it wraps
    source,         \* Tokenizer.source
    tokenizer,      \* Tokenizer's cursor fields and its local tokens
    lexed,          \* Option: the Vec<Token> returned by tokenize
    parser,         \* Parser.cursor and parse's local statements
    parsed,         \* Option: the Program returned by parse
    diagnostic,     \* Option: what parse wrote to stderr when it panicked
    evaluator,      \* PartialEvaluator.program and the statements mapped so far
    evaluated,      \* Option: the Program returned by evaluate
    previous,       \* Option: the program and the result of the evaluate before
    pass,           \* RemoveComplexOperandsPass, the statements run has emitted
                    \* and the index of the statement it is at
    normalized,     \* Option: the Program returned by run
    codegen,        \* X86AssemblyCodegen, its environment and generate's locals
    instructions,   \* Option: the Vec<Instruction> returned by generate
    file            \* Option: the lines of the .asm file main has created

vars == <<pc, build, source, tokenizer, lexed, parser, parsed, diagnostic, evaluator,
          evaluated, previous, pass, normalized, codegen, instructions, file>>

None == <<>>
Some(v) == <<v>>

(***************************************************************************)
(* Bounds of the model.                                                    *)
(***************************************************************************)
\* statements plus expression nodes of a module given to the evaluator
MaxModuleSize == 6

-----------------------------------------------------------------------------
(***************************************************************************)
(* i64 (ast.rs, Expression::Constant { value: i64 }).                      *)
(***************************************************************************)
LimbBase == 2^21
TopBound == 2^21

I64(n) == <<IF n < 0 THEN -1 ELSE 0, (n \div LimbBase) % LimbBase, n % LimbBase>>
I64Max == <<TopBound - 1, LimbBase - 1, LimbBase - 1>>

\* carries propagated from the low limb up; overflow when the signed top limb
\* leaves its 22 bits, and then the value wraps (two's complement)
I64Normalize(top, mid, low) ==
    LET m == mid + (low \div LimbBase)
        t == top + (m \div LimbBase)
    IN  [value    |-> <<((t + TopBound) % (2 * TopBound)) - TopBound,
                        m % LimbBase, low % LimbBase>>,
         overflow |-> t < -TopBound \/ t >= TopBound]

I64Add(a, b) == I64Normalize(a[1] + b[1], a[2] + b[2], a[3] + b[3])
I64Sub(a, b) == I64Normalize(a[1] - b[1], a[2] - b[2], a[3] - b[3])
I64Neg(a) == I64Normalize(-a[1], -a[2], -a[3])

-----------------------------------------------------------------------------
(***************************************************************************)
(* The AST (ast.rs).                                                       *)
(***************************************************************************)
Constant(value) == [type |-> "Constant", value |-> value]
VariableAccess(name) == [type |-> "VariableAccess", name |-> name]
UnaryOp(operator, operand) ==
    [type |-> "UnaryOp", operator |-> operator, operand |-> operand]
BinaryOp(left, operator, right) ==
    [type |-> "BinaryOp", left |-> left, operator |-> operator, right |-> right]
Call(name, args) == [type |-> "Call", name |-> name, args |-> args]

ExpressionStatement(expression) ==
    [type |-> "Expression", expression |-> expression]
VariableDeclaration(name, value) ==
    [type |-> "VariableDeclaration", name |-> name, value |-> value]

Program(statements) == [statements |-> statements]

\* a panic!(), todo!(), failed unwrap() or failed assert!() unwinding out of
\* an operation that returns a value
Panic == [type |-> "Panic"]

-----------------------------------------------------------------------------
(***************************************************************************)
(* Bounded inputs: expression trees by number of nodes.                    *)
(***************************************************************************)
RECURSIVE ExprsOfSize(_, _)
ExprsOfSize(leaves, n) ==
    IF n = 1 THEN leaves
    ELSE { UnaryOp("Sub", e) : e \in ExprsOfSize(leaves, n - 1) }
         \cup UNION { { BinaryOp(l, op, r) :
                            l \in ExprsOfSize(leaves, k),
                            op \in {"Add", "Sub"},
                            r \in ExprsOfSize(leaves, n - 1 - k) } :
                      k \in 1..(n - 2) }

StatementsOfSize(leaves, names, n) ==
    { ExpressionStatement(e) : e \in ExprsOfSize(leaves, n - 1) }
    \cup { VariableDeclaration(name, e) :
               name \in names, e \in ExprsOfSize(leaves, n - 1) }

RECURSIVE ModulesOfSize(_, _, _)
ModulesOfSize(leaves, names, n) ==
    IF n = 0 THEN { <<>> }
    ELSE UNION { { <<s>> \o m : s \in StatementsOfSize(leaves, names, k),
                                m \in ModulesOfSize(leaves, names, n - k) } :
                 k \in 2..n }

ModulesUpTo(leaves, names, n) ==
    UNION { ModulesOfSize(leaves, names, k) : k \in 0..n }

-----------------------------------------------------------------------------
(***************************************************************************)
(* Tokenizer (tokenizer.rs).                                               *)
(***************************************************************************)
\* Tokenizer::new, with tokenize's local tokens
NewTokenizer ==
    [cursor |-> 0, current_line |-> 1, current_column |-> 0,
     current_token_start |-> 0, tokens |-> <<>>]

\* the decimal digits, in order
DigitChars == <<"0", "1", "2", "3", "4", "5", "6", "7", "8", "9">>

Token(type, location, length, literal_value) ==
    [type |-> type, location |-> location, length |-> length,
     literal_value |-> literal_value]

\* char::is_whitespace on the characters of a source
IsWhitespace(c) == c \in {" ", "\t", "\n", "\r"}

\* '0'..='9'
IsDecimalDigit(c) == c \in {"0", "1", "2", "3", "4", "5", "6", "7", "8", "9"}

LowerCase ==
    {"a", "b", "c", "d", "e", "f", "g", "h", "i", "j", "k", "l", "m", "n", "o", "p", "q", "r", "s", "t", "u", "v", "w", "x", "y", "z"}

UpperCase ==
    {"A", "B", "C", "D", "E", "F", "G", "H", "I", "J", "K", "L", "M", "N", "O", "P", "Q", "R", "S", "T", "U", "V", "W", "X", "Y", "Z"}

\* digits taken as identifier characters too
IsIdentifierCharOrDigit(c) ==
    c \in LowerCase \cup UpperCase \cup {"_"} \cup {DigitChars[i] : i \in 1..10}

\* 'a'..='z' | 'A'..='Z' | '_'
IsIdentifierChar(c) == c \in LowerCase \cup UpperCase \cup {"_"}

\* Keyword::try_match_from_raw_value
try_match_from_raw_value(raw) ==
    IF raw = <<"l", "e", "t">> THEN Some("Keyword(Let)")
    ELSE IF raw = <<"c", "o", "n", "s", "t">> THEN Some("Keyword(Const)")
    ELSE None

is_at_end(self) == self.cursor >= Len(source)

\* the source from byte offset first up to, not including, byte offset last
Slice(first, last) == SubSeq(source, first + 1, last)

\* [self, c], or Panic on an index out of bounds
consume_char(self) ==
    IF self.cursor >= Len(source) THEN Panic
    ELSE [self |-> [self EXCEPT !.cursor = @ + 1, !.current_column = @ + 1],
          c |-> source[self.cursor + 1]]

\* Some(c), or None for the panic at the end of the source
peek_next_char(self) ==
    IF is_at_end(self) THEN None ELSE Some(source[self.cursor + 1])

\* [self, matched], or Panic
match_next_char(self, wanted) ==
    IF peek_next_char(self) = None THEN Panic
    ELSE IF peek_next_char(self)[1] = wanted
    THEN [self |-> consume_char(self).self, matched |-> TRUE]
    ELSE [self |-> self, matched |-> FALSE]

make_token(self, token_type) ==
    Token(token_type,
          <<self.current_line, self.current_token_start>>,
          self.cursor - self.current_token_start,
          IF token_type = "Eof" THEN <<>>
          ELSE Slice(self.current_token_start, self.cursor))

RECURSIVE string_end(_)
\* consume_string's loop: self after the closing quote, or None when the
\* source ends first
string_end(self) ==
    IF is_at_end(self) THEN None
    ELSE IF consume_char(self).c = "\"" THEN Some(consume_char(self).self)
    ELSE string_end(consume_char(self).self)

\* [self, token], or Panic
consume_string(self) ==
    IF string_end(self) = None THEN Panic
    ELSE LET after == string_end(self)[1]
         IN  [self |-> after,
              token |-> Token("String",
                              <<after.current_line, after.current_token_start>>,
                              after.cursor - 1 - after.current_token_start,
                              Slice(after.current_token_start + 1,
                                    after.cursor - 1))]

RECURSIVE number_end(_)
\* consume_number's loop
number_end(self) ==
    IF is_at_end(self) THEN self
    ELSE IF ~IsDecimalDigit(peek_next_char(self)[1]) THEN self
    ELSE number_end(consume_char(self).self)

consume_number(self) ==
    LET after == number_end(self)
    IN  [self |-> after,
         token |-> Token("Number",
                         <<after.current_line, after.current_token_start>>,
                         after.cursor - after.current_token_start,
                         Slice(after.current_token_start, after.cursor))]

RECURSIVE identifier_end(_)
\* consume_identifier_or_keyword's loop
identifier_end(self) ==
    IF is_at_end(self) THEN self
    ELSE IF ~IsIdentifierChar(peek_next_char(self)[1]) THEN self
    ELSE identifier_end(consume_char(self).self)

consume_identifier_or_keyword(self) ==
    LET after == identifier_end(self)
        raw_value == Slice(after.current_token_start, after.cursor)
    IN  [self |-> after,
         token |-> Token(IF try_match_from_raw_value(raw_value) # None
                         THEN try_match_from_raw_value(raw_value)[1]
                         ELSE "Identifier",
                         <<after.current_line, after.current_token_start>>,
                         after.cursor - after.current_token_start,
                         raw_value)]

RECURSIVE skip_whitespace(_, _)
\* consume_token's loop over whitespace: [self, c], with c = None for the
\* return at the end of the source
skip_whitespace(self, c) ==
    IF ~IsWhitespace(c) THEN [self |-> self, c |-> Some(c)]
    ELSE IF is_at_end(self) THEN [self |-> self, c |-> None]
    ELSE LET counted == IF c = "\n"
                        THEN [self EXCEPT !.current_line = @ + 1,
                                          !.current_column = 1]
                        ELSE self
             next == consume_char(counted)
         IN  skip_whitespace(
                 [next.self EXCEPT !.current_token_start = next.self.cursor - 1],
                 next.c)

\* the arms of consume_token that try a second character
one_or_two(self, wanted, two, one) ==
    IF match_next_char(self, wanted) = Panic THEN Panic
    ELSE LET after == match_next_char(self, wanted).self
         IN  [self |-> after,
              token |-> Some(make_token(after,
                                 IF match_next_char(self, wanted).matched
                                 THEN two ELSE one))]

\* the ':' arm
colon(self) ==
    IF match_next_char(self, "=") = Panic THEN Panic
    ELSE IF match_next_char(self, "=").matched
    THEN [self |-> match_next_char(self, "=").self,
          token |-> Some(make_token(match_next_char(self, "=").self,
                                    "ColonEquals"))]
    ELSE IF match_next_char(self, ":").matched
    THEN [self |-> match_next_char(self, ":").self,
          token |-> Some(make_token(match_next_char(self, ":").self,
                                    "DoubleColon"))]
    ELSE Panic

single(self, token_type) ==
    [self |-> self, token |-> Some(make_token(self, token_type))]

multi(result) ==
    IF result = Panic THEN Panic
    ELSE [self |-> result.self, token |-> Some(result.token)]

\* [self, token] with token an Option, or Panic
consume_token(self) ==
    LET skipped == skip_whitespace(consume_char(self).self, consume_char(self).c)
        at == skipped.self
    IN  IF skipped.c = None THEN [self |-> at, token |-> None]
        ELSE LET c == skipped.c[1]
             IN  CASE c = "(" -> single(at, "ParenthesesLeft")
                   [] c = ")" -> single(at, "ParenthesesRight")
                   [] c = "{" -> single(at, "BraceLeft")
                   [] c = "}" -> single(at, "BraceRight")
                   [] c = "," -> single(at, "Comma")
                   [] c = "." -> single(at, "Dot")
                   [] c = "+" -> single(at, "Plus")
                   [] c = "*" -> single(at, "Star")
                   [] c = "/" -> single(at, "Slash")
                   [] c = ";" -> single(at, "Semicolon")
                   [] c = "-" -> one_or_two(at, ">", "ArrowRight", "Minus")
                   [] c = "!" -> one_or_two(at, "=", "NotEquals", "Not")
                   [] c = "=" -> one_or_two(at, "=", "EqualsEquals", "Equals")
                   [] c = ">" ->
                         one_or_two(at, "=", "GreaterThanEquals", "GreaterThan")
                   [] c = "<" -> one_or_two(at, "=", "LessThanEquals", "LessThan")
                   [] c = ":" -> colon(at)
                   [] c = "\"" -> multi(consume_string(at))
                   [] IsDecimalDigit(c) -> multi(consume_number(at))
                   [] IsIdentifierChar(c) ->
                         multi(consume_identifier_or_keyword(at))
                   [] OTHER -> Panic

-----------------------------------------------------------------------------
(***************************************************************************)
(* Parser (parser.rs).                                                     *)
(***************************************************************************)
\* Parser::new, with parse's local statements
NewParser(tokens) == [tokens |-> tokens, cursor |-> 0, statements |-> <<>>]

\* Expression::Grouping, as parse_primary builds it
Grouping(expression) == [type |-> "Grouping", expression |-> expression]

\* a panic unwinding out of the parser, with what it wrote to stderr: the
\* text in fragments, token kinds by their Debug names
Failure(stderr) == [type |-> "Panic", stderr |-> stderr]

IsPanic(result) == "stderr" \in DOMAIN result

\* impl From<&TokenType> for Operator: None stands for the panic
OperatorFrom(value) ==
    IF value = "Plus" THEN Some("Add")
    ELSE IF value = "Minus" THEN Some("Sub")
    ELSE None

RECURSIVE parse_i64(_)
\* str::parse::<i64> of a run of digits: Some(value), or None for the Err
\* of a literal that does not fit
parse_i64(literal) ==
    IF literal = <<>> THEN Some(<<0, 0, 0>>)
    ELSE LET front == parse_i64(SubSeq(literal, 1, Len(literal) - 1))
             digit == CHOOSE d \in 0..9 : DigitChars[d + 1] = literal[Len(literal)]
         IN  IF front = None THEN None
             ELSE LET result == I64Normalize(front[1][1] * 10, front[1][2] * 10,
                                             front[1][3] * 10 + digit)
                  IN  IF result.overflow THEN None ELSE Some(result.value)

\* self.tokens[self.cursor]: Some(token), or None out of bounds
current_token(self) ==
    IF self.cursor < Len(self.tokens) THEN Some(self.tokens[self.cursor + 1])
    ELSE None

\* the current token taken whatever its kind
consume_required_unchecked(self, required_type) ==
    IF current_token(self) = None
    THEN Failure(<<"index out of bounds: the len is ",
                   ToString(Len(self.tokens)), " but the index is ",
                   ToString(self.cursor)>>)
    ELSE [self |-> [self EXCEPT !.cursor = @ + 1],
          token |-> current_token(self)[1]]

\* [self, token], or a Failure
consume_required(self, required_type) ==
    IF current_token(self) = None
    THEN Failure(<<"index out of bounds: the len is ",
                   ToString(Len(self.tokens)), " but the index is ",
                   ToString(self.cursor)>>)
    ELSE IF required_type # current_token(self)[1].type
    THEN Failure(<<"Expected the following token: ", required_type,
                   ", but got ", current_token(self)[1].type, " instead">>)
    ELSE [self |-> [self EXCEPT !.cursor = @ + 1],
          token |-> current_token(self)[1]]

\* [self, token] with token an Option, or a Failure
consume_if_matched(self, wanted) ==
    IF current_token(self) = None
    THEN Failure(<<"index out of bounds: the len is ",
                   ToString(Len(self.tokens)), " but the index is ",
                   ToString(self.cursor)>>)
    ELSE IF current_token(self)[1].type \in wanted
    THEN [self |-> [self EXCEPT !.cursor = @ + 1], token |-> current_token(self)]
    ELSE [self |-> self, token |-> None]

get_previous_token(self) ==
    IF self.cursor > 0 /\ self.cursor - 1 < Len(self.tokens)
    THEN self.tokens[self.cursor]
    ELSE Failure(<<"assertion failed: self.cursor > 0">>)

\* Parser::is_at_end
parser_is_at_end(self) == self.tokens[self.cursor + 1].type = "Eof"

Parsed(self, expression) == [self |-> self, expression |-> expression]

RECURSIVE parse_term(_)
RECURSIVE term_loop(_, _)
RECURSIVE parse_factor(_)
RECURSIVE factor_loop(_, _)
RECURSIVE parse_function_call(_)
RECURSIVE parse_unary(_)
RECURSIVE parse_primary(_)

parse_expression(self) == parse_term(self)

\* Below, CHOOSE result \in { e : x \in {v} } : TRUE is `let x = v; e`: the
\* value of a nested parse is computed once and named.
parse_primary(self) ==
    LET identifier == consume_if_matched(self, {"Identifier"})
        number == consume_if_matched(self, {"Number"})
        value == parse_i64(number.token[1].literal_value)
        parentheses == consume_if_matched(self, {"ParenthesesLeft"})
    IN  IF IsPanic(identifier) THEN identifier
        ELSE IF identifier.token # None
        THEN Parsed(identifier.self,
                    VariableAccess(identifier.token[1].literal_value))
        ELSE IF number.token # None
        THEN IF value = None
             THEN Failure(<<"called Result::unwrap() on an Err value: ",
                            "ParseIntError { kind: PosOverflow }">>)
             ELSE Parsed(number.self, Constant(value[1]))
        ELSE IF parentheses.token # None
        THEN CHOOSE result \in
                 { IF IsPanic(expression) THEN expression
                   ELSE IF IsPanic(consume_required(expression.self,
                                                    "ParenthesesRight"))
                   THEN consume_required(expression.self, "ParenthesesRight")
                   ELSE Parsed(consume_required(expression.self,
                                                "ParenthesesRight").self,
                               Grouping(expression.expression))
                   : expression \in {parse_expression(parentheses.self)} } : TRUE
        ELSE \* dbg!(&self.tokens[self.cursor]); panic!("Expected expression")
             LET token == self.tokens[self.cursor + 1]
             IN  Failure(<<"[src/parser.rs:146] &self.tokens[self.cursor] = ",
                           "Token { type: ", token.type,
                           ", location: (", ToString(token.location[1]), ", ",
                           ToString(token.location[2]), "), length: ",
                           ToString(token.length), ", literal_value: ", "\"">>
                             \o token.literal_value
                             \o <<"\"", " }", "Expected expression">>)

parse_unary(self) ==
    LET operator == consume_if_matched(self, {"Minus"})
    IN  IF IsPanic(operator) THEN operator
        ELSE IF operator.token # None
        THEN CHOOSE result \in
                 { IF IsPanic(rhs) THEN rhs
                   ELSE IF OperatorFrom(operator.token[1].type) = None
                   THEN Failure(<<"Unknown operator for TokenType: ",
                                  operator.token[1].type>>)
                   ELSE Parsed(rhs.self,
                               UnaryOp(OperatorFrom(operator.token[1].type)[1],
                                       rhs.expression))
                   : rhs \in {parse_unary(operator.self)} } : TRUE
        ELSE parse_primary(self)

\* what parse_function_call does with the expression parse_unary returned
call_of(callee) ==
    LET parentheses == consume_if_matched(callee.self, {"ParenthesesLeft"})
        variable_access == consume_required(parentheses.self, "Identifier")
        closed == consume_required(variable_access.self, "ParenthesesRight")
        semicolon == consume_required(closed.self, "Semicolon")
    IN  IF IsPanic(callee) THEN callee
        ELSE IF IsPanic(parentheses) THEN parentheses
        ELSE IF parentheses.token = None THEN callee
        ELSE IF IsPanic(variable_access) THEN variable_access
        ELSE IF IsPanic(closed) THEN closed
        ELSE IF IsPanic(semicolon) THEN semicolon
        ELSE IF callee.expression.type # "VariableAccess"
        THEN Failure(<<"explicit panic">>)
        ELSE Parsed(semicolon.self,
                    Call(callee.expression.name,
                         <<VariableAccess(variable_access.token.literal_value)>>))

parse_function_call(self) ==
    CHOOSE result \in { call_of(callee) : callee \in {parse_unary(self)} } : TRUE

\* the while loop of parse_factor
factor_loop(self, expression) ==
    LET matched == consume_if_matched(self, {"Star", "Slash"})
        operator == get_previous_token(matched.self)
    IN  IF IsPanic(matched) THEN matched
        ELSE IF matched.token = None THEN Parsed(self, expression)
        ELSE IF IsPanic(operator) THEN operator
        ELSE CHOOSE result \in
                 { IF IsPanic(rhs) THEN rhs
                   ELSE IF OperatorFrom(operator.type) = None
                   THEN Failure(<<"Unknown operator for TokenType: ",
                                  operator.type>>)
                   ELSE factor_loop(rhs.self,
                                    BinaryOp(expression,
                                             OperatorFrom(operator.type)[1],
                                             rhs.expression))
                   : rhs \in {parse_function_call(matched.self)} } : TRUE

parse_factor(self) ==
    CHOOSE result \in
        { IF IsPanic(first) THEN first
          ELSE factor_loop(first.self, first.expression)
          : first \in {parse_function_call(self)} } : TRUE

\* the while loop of parse_term
term_loop(self, expression) ==
    LET matched == consume_if_matched(self, {"Plus", "Minus"})
        operator == get_previous_token(matched.self)
    IN  IF IsPanic(matched) THEN matched
        ELSE IF matched.token = None THEN Parsed(self, expression)
        ELSE IF IsPanic(operator) THEN operator
        ELSE CHOOSE result \in
                 { IF IsPanic(rhs) THEN rhs
                   ELSE IF OperatorFrom(operator.type) = None
                   THEN Failure(<<"Unknown operator for TokenType: ",
                                  operator.type>>)
                   ELSE term_loop(rhs.self,
                                  BinaryOp(expression,
                                           OperatorFrom(operator.type)[1],
                                           rhs.expression))
                   : rhs \in {parse_factor(matched.self)} } : TRUE

parse_term(self) ==
    CHOOSE result \in
        { IF IsPanic(first) THEN first
          ELSE term_loop(first.self, first.expression)
          : first \in {parse_factor(self)} } : TRUE

\* [self, statement], or a Failure
parse_variable_declaration(self) ==
    LET keyword == consume_if_matched(self, {"Keyword(Let)"})
        identifier == consume_required(keyword.self, "Identifier")
        equals == consume_required(identifier.self, "Equals")
    IN  IF IsPanic(keyword) THEN keyword
        ELSE IF keyword.token # None
        THEN IF IsPanic(identifier) THEN identifier
             ELSE IF IsPanic(equals) THEN equals
             ELSE CHOOSE result \in
                      { IF IsPanic(initializer) THEN initializer
                        ELSE IF IsPanic(consume_required(initializer.self,
                                                         "Semicolon"))
                        THEN consume_required(initializer.self, "Semicolon")
                        ELSE [self |-> consume_required(initializer.self,
                                                        "Semicolon").self,
                              statement |->
                                  VariableDeclaration(
                                      identifier.token.literal_value,
                                      initializer.expression)]
                        : initializer \in {parse_expression(equals.self)} } : TRUE
        ELSE CHOOSE result \in
                 { IF IsPanic(expression) THEN expression
                   ELSE [self |-> expression.self,
                         statement |-> ExpressionStatement(expression.expression)]
                   : expression \in {parse_expression(self)} } : TRUE

parse_statement(self) == parse_variable_declaration(self)

-----------------------------------------------------------------------------
(***************************************************************************)
(* PartialEvaluator (partial_evaluator.rs).                                *)
(***************************************************************************)
\* the result of an arithmetic operation of the build: a debug build panics
\* on overflow, a release build keeps the wrapped value
Arithmetic(result, checks) ==
    IF result.overflow /\ checks THEN Panic ELSE Constant(result.value)

\* the arm of a unary op whose evaluated operand is Constant { value }
fold_unary(operator, value, checks) ==
    IF operator = "Sub"
    THEN Arithmetic(I64Neg(value), checks)
    ELSE Panic                                    \* Operator::Add => todo!()

fold_binary_swapped(operator, left_value, right_value, checks) ==
    IF operator = "Sub"
    THEN Arithmetic(I64Sub(right_value, left_value), checks)
    ELSE Arithmetic(I64Add(left_value, right_value), checks)

\* the arm of a binary op whose evaluated operands are both constants
fold_binary(operator, left_value, right_value, checks) ==
    IF operator = "Sub"
    THEN Arithmetic(I64Sub(left_value, right_value), checks)
    ELSE Arithmetic(I64Add(left_value, right_value), checks)

\* as evaluate_expression, but matching on the operands as written and
\* rebuilding the node from the evaluated ones
RECURSIVE evaluate_expression_shallow(_, _)
evaluate_expression_shallow(expression, checks) ==
    CASE expression.type = "UnaryOp" ->
            LET operand == evaluate_expression_shallow(expression.operand, checks)
            IN  IF operand = Panic THEN Panic
                ELSE IF expression.operand.type = "Constant"
                THEN fold_unary(expression.operator, operand.value, checks)
                ELSE UnaryOp(expression.operator, operand)
      [] expression.type = "BinaryOp" ->
            LET left == evaluate_expression_shallow(expression.left, checks)
                right == IF left = Panic THEN Panic
                         ELSE evaluate_expression_shallow(expression.right, checks)
            IN  IF left = Panic \/ right = Panic THEN Panic
                ELSE IF /\ expression.left.type = "Constant"
                        /\ expression.right.type = "Constant"
                THEN fold_binary(expression.operator, left.value, right.value,
                                 checks)
                ELSE BinaryOp(left, expression.operator, right)
      [] OTHER -> expression

RECURSIVE evaluate_expression(_, _)
evaluate_expression(expression, checks) ==
    CASE expression.type = "UnaryOp" ->
            LET operand == evaluate_expression(expression.operand, checks)
            IN  IF operand = Panic THEN Panic
                ELSE IF operand.type = "Constant"
                THEN fold_unary(expression.operator, operand.value, checks)
                ELSE expression
      [] expression.type = "BinaryOp" ->
            LET left == evaluate_expression(expression.left, checks)
                right == IF left = Panic THEN Panic
                         ELSE evaluate_expression(expression.right, checks)
            IN  IF left = Panic \/ right = Panic THEN Panic
                ELSE IF left.type = "Constant" /\ right.type = "Constant"
                THEN fold_binary(expression.operator, left.value, right.value,
                                 checks)
                ELSE expression
      [] OTHER -> expression

evaluate_statement(statement, checks) ==
    IF statement.type = "Expression"
    THEN LET e == evaluate_expression(statement.expression, checks)
         IN  IF e = Panic THEN Panic ELSE ExpressionStatement(e)
    ELSE LET e == evaluate_expression(statement.value, checks)
         IN  IF e = Panic THEN Panic
             ELSE VariableDeclaration(statement.name, e)

\* PartialEvaluator::new
NewEvaluator(program) == [program |-> program, statements |-> <<>>]

-----------------------------------------------------------------------------
(***************************************************************************)
(* RemoveComplexOperandsPass (remove_complex_operands.rs).                 *)
(***************************************************************************)
\* RemoveComplexOperandsPass::new, with the statements run has collected
NewPass(program) ==
    [program |-> program, temp_variable_index |-> 0, statements |-> <<>>,
     next |-> 1]

\* temp_variable_index: u16
U16Limit == 65536

\* format!("{}", n) of an unsigned integer
RECURSIVE Decimal(_)
Decimal(n) ==
    IF n < 10 THEN <<DigitChars[n + 1]>>
    ELSE Decimal(n \div 10) \o <<DigitChars[(n % 10) + 1]>>

TmpPrefix == <<"t", "m", "p", "_">>

declare_temporary_variable_reused(index, initialzer_expression, checks) ==
    [name |-> TmpPrefix \o Decimal(index),
     statement |-> VariableDeclaration(TmpPrefix \o Decimal(index),
                                       initialzer_expression),
     index |-> index]

\* returns the name and the statement, and the index it leaves in self;
\* += 1 on the u16 panics on overflow with overflow checks and wraps without
declare_temporary_variable(index, initialzer_expression, checks) ==
    IF index + 1 >= U16Limit /\ checks THEN Panic
    ELSE [name |-> TmpPrefix \o Decimal(index),
          statement |-> VariableDeclaration(TmpPrefix \o Decimal(index),
                                            initialzer_expression),
          index |-> (index + 1) % U16Limit]

chain_reversed(left_statements, right_statements) ==
    right_statements \o left_statements

\* left.additional_statements.into_iter().chain(right.additional_statements)
chain(left_statements, right_statements) ==
    left_statements \o right_statements

\* a result and the temp_variable_index the call leaves in self
TransformExpressionResult(expression, additional_statements, index) ==
    [expression |-> expression,
     additional_statements |-> additional_statements,
     index |-> index]

RECURSIVE transform_expression(_, _, _, _)
RECURSIVE transform_operand(_, _, _)
RECURSIVE transform_operand_kept(_, _, _)
RECURSIVE transform_args(_, _, _)

transform_operand_kept(expression, index, checks) ==
    transform_expression(expression, FALSE, index, checks)

\* self.transform_expression(operand, true): an operand or an argument
transform_operand(expression, index, checks) ==
    transform_expression(expression, TRUE, index, checks)

\* the map of the Call arm over args, in order
transform_args(args, index, checks) ==
    IF args = <<>>
    THEN [expressions |-> <<>>, additional_statements |-> <<>>, index |-> index]
    ELSE LET first == transform_operand(Head(args), index, checks)
             rest == IF first = Panic THEN Panic
                     ELSE transform_args(Tail(args), first.index, checks)
         IN  IF first = Panic \/ rest = Panic THEN Panic
             ELSE [expressions |-> <<first.expression>> \o rest.expressions,
                   additional_statements |->
                       first.additional_statements \o rest.additional_statements,
                   index |-> rest.index]

\* the temporary declared before the statements its operands need
bind_temporary_first(expression, additional_statements, index, checks) ==
    LET temp == declare_temporary_variable(index, expression, checks)
    IN  IF temp = Panic THEN Panic
        ELSE TransformExpressionResult(
                 VariableAccess(temp.name),
                 <<temp.statement>> \o additional_statements,
                 temp.index)

\* binds expression to a fresh temporary after the statements collected
bind_temporary(expression, additional_statements, index, checks) ==
    LET temp == declare_temporary_variable(index, expression, checks)
    IN  IF temp = Panic THEN Panic
        ELSE TransformExpressionResult(
                 VariableAccess(temp.name),
                 Append(additional_statements, temp.statement),
                 temp.index)

transform_expression(expression, should_create_temporary_variable, index, checks) ==
    CASE expression.type \in {"Constant", "VariableAccess"} ->
            TransformExpressionResult(expression, <<>>, index)
      [] expression.type = "UnaryOp" ->
            LET operand == transform_operand(expression.operand, index, checks)
            IN  IF operand = Panic THEN Panic
                ELSE IF ~should_create_temporary_variable
                THEN TransformExpressionResult(
                         UnaryOp(expression.operator, operand.expression),
                         operand.additional_statements, operand.index)
                ELSE bind_temporary(
                         UnaryOp(expression.operator, operand.expression),
                         operand.additional_statements, operand.index, checks)
      [] expression.type = "BinaryOp" ->
            LET left == transform_operand(expression.left, index, checks)
                right == IF left = Panic THEN Panic
                         ELSE transform_operand(expression.right, left.index,
                                                checks)
            IN  IF left = Panic \/ right = Panic THEN Panic
                ELSE LET new_expression ==
                             BinaryOp(left.expression, expression.operator,
                                      right.expression)
                         additional_statements ==
                             chain(left.additional_statements,
                                   right.additional_statements)
                     IN  IF ~should_create_temporary_variable
                         THEN TransformExpressionResult(
                                  new_expression, additional_statements,
                                  right.index)
                         ELSE bind_temporary(new_expression,
                                             additional_statements, right.index,
                                             checks)
      [] expression.type = "Call" ->
            LET transformed_args == transform_args(expression.args, index, checks)
            IN  IF transformed_args = Panic THEN Panic
                ELSE bind_temporary(
                         Call(expression.name, transformed_args.expressions),
                         transformed_args.additional_statements,
                         transformed_args.index, checks)

\* the Call arm honouring should_create_temporary_variable = false: a call
\* that is the whole initializer stays in the declaration
transform_statement_keeping_call(statement, index, checks) ==
    IF statement.type = "Expression" THEN Panic
    ELSE IF statement.value.type = "Call"
    THEN LET transformed_args ==
                 transform_args(statement.value.args, index, checks)
         IN  IF transformed_args = Panic THEN Panic
             ELSE [new_statements |->
                       Append(transformed_args.additional_statements,
                              VariableDeclaration(
                                  statement.name,
                                  Call(statement.value.name,
                                       transformed_args.expressions))),
                   index |-> transformed_args.index]
    ELSE LET result == transform_expression(statement.value, FALSE, index,
                                            checks)
         IN  IF result = Panic THEN Panic
             ELSE [new_statements |->
                       Append(result.additional_statements,
                              VariableDeclaration(statement.name,
                                                  result.expression)),
                   index |-> result.index]

\* the statements that replace statement, and the index left in self
transform_statement(statement, index, checks) ==
    IF statement.type = "Expression" THEN Panic                    \* todo!()
    ELSE LET result == transform_expression(statement.value, FALSE, index,
                                            checks)
         IN  IF result = Panic THEN Panic
             ELSE [new_statements |->
                       Append(result.additional_statements,
                              VariableDeclaration(statement.name,
                                                  result.expression)),
                   index |-> result.index]

-----------------------------------------------------------------------------
(***************************************************************************)
(* X86AssemblyCodegen (codegen.rs).                                        *)
(***************************************************************************)
\* the text of an instruction, one character per element
SubRsp == <<"s", "u", "b", " ", "r", "s", "p", ",", " ">>
MovDwordRbp == <<"m", "o", "v", " ", "d", "w", "o", "r", "d", " ", "[", "r", "b", "p", " ", "-", " ">>
MovDwordRax == <<"m", "o", "v", " ", "d", "w", "o", "r", "d", " ", "r", "a", "x", ",", " ", "[", "r", "b", "p", " ", "-", " ">>
MovDwordRdi == <<"m", "o", "v", " ", "d", "w", "o", "r", "d", " ", "r", "d", "i", ",", " ">>
CallText == <<"c", "a", "l", "l", " ">>

\* the magnitude of an i64 as limbs, the top one unsigned
Magnitude(value) ==
    IF value[1] >= 0 THEN value
    ELSE LET low == (-value[3]) % LimbBase
             carry_low == ((-value[3]) - low) \div LimbBase
             mid == ((-value[2]) + carry_low) % LimbBase
             carry_mid == (((-value[2]) + carry_low) - mid) \div LimbBase
         IN  <<(-value[1]) + carry_mid, mid, low>>

DivMod10(limbs) ==
    LET mid == (limbs[1] % 10) * LimbBase + limbs[2]
        low == (mid % 10) * LimbBase + limbs[3]
    IN  [quotient |-> <<limbs[1] \div 10, mid \div 10, low \div 10>>,
         remainder |-> low % 10]

RECURSIVE DigitsOf(_)
DigitsOf(limbs) ==
    IF limbs = <<0, 0, 0>> THEN <<>>
    ELSE DigitsOf(DivMod10(limbs).quotient)
             \o <<DigitChars[DivMod10(limbs).remainder + 1]>>

\* format!("{}", value) of an i64
FormatI64(value) ==
    IF value = <<0, 0, 0>> THEN <<"0">>
    ELSE (IF value[1] < 0 THEN <<"-">> ELSE <<>>) \o DigitsOf(Magnitude(value))

\* the name inserted at the offset before the increment
allocate_variable_from_zero(environment, name) ==
    [allocated_variables |->
         [n \in (DOMAIN environment.allocated_variables) \cup {name} |->
              IF n = name THEN environment.stack_offset
              ELSE environment.allocated_variables[n]],
     stack_offset |-> environment.stack_offset + 4]

\* a name declared before keeps its slot
allocate_variable_reusing(environment, name) ==
    IF name \in DOMAIN environment.allocated_variables THEN environment
    ELSE LET stack_offset == environment.stack_offset + 4
         IN  [allocated_variables |->
                  [n \in (DOMAIN environment.allocated_variables) \cup {name} |->
                       IF n = name THEN stack_offset
                       ELSE environment.allocated_variables[n]],
              stack_offset |-> stack_offset]

allocate_variable(environment, name) ==
    LET stack_offset == environment.stack_offset + 4
    IN  [allocated_variables |->
             [n \in (DOMAIN environment.allocated_variables) \cup {name} |->
                  IF n = name THEN stack_offset
                  ELSE environment.allocated_variables[n]],
         stack_offset |-> stack_offset]

\* None stands for the unwrap() of a missing entry
get_variable_stack_offset(environment, name) ==
    IF name \in DOMAIN environment.allocated_variables
    THEN Some(environment.allocated_variables[name])
    ELSE None

\* X86AssemblyCodegen::new with Environment::default(), generate's locals and its place in the
\* iteration over the statements
NewCodegen(program) ==
    [program |-> program,
     environment |-> [allocated_variables |-> <<>>, stack_offset |-> 0],
     prelude |-> None, stack_space_allocation |-> None,
     program_instructions |-> <<>>, next |-> 1]

emit_prelude ==
    << <<"g", "l", "o", "b", "a", "l", " ", "m", "a", "i", "n">>,
       <<"e", "x", "t", "e", "r", "n", " ", "p", "r", "i", "n", "t", "_", "i", "n", "t">>,
       <<"s", "e", "c", "t", "i", "o", "n", " ", ".", "t", "e", "x", "t">>,
       <<"m", "a", "i", "n", ":">>,
       <<"p", "u", "s", "h", " ", "r", "b", "p">>,
       <<"m", "o", "v", " ", "r", "b", "p", ",", " ", "r", "s", "p">> >>

emit_epilogue ==
    << <<"m", "o", "v", " ", "r", "s", "p", ",", " ", "r", "b", "p">>,
       <<"p", "o", "p", " ", "r", "b", "p">>,
       <<"x", "o", "r", " ", "r", "a", "x", ",", " ", "r", "a", "x">>,
       <<"r", "e", "t">> >>

RECURSIVE bytes_needed(_)
\* 4 for each variable declaration
bytes_needed(statements) ==
    IF statements = <<>> THEN 0
    ELSE (IF Head(statements).type = "VariableDeclaration" THEN 4 ELSE 0)
             + bytes_needed(Tail(statements))

aligned_space_truncated(bytes) == bytes - (bytes % 16)

\* (bytes_needed + 15) & !15: the last four bits cleared
aligned_space(bytes) == (bytes + 15) - ((bytes + 15) % 16)

emit_stack_space_allocation(program) ==
    IF bytes_needed(program.statements) > 0
    THEN <<SubRsp \o Decimal(aligned_space(bytes_needed(program.statements)))>>
    ELSE <<>>

\* the VariableAccess arm written out instead of todo!(): the value is
\* copied from the variable's slot through rax
emit_variable_declaration_copying(environment, name, initializer) ==
    LET allocated == allocate_variable(environment, name)
        stack_offset == get_variable_stack_offset(allocated, name)[1]
    IN  IF initializer.type = "Constant"
        THEN [instructions |->
                  <<MovDwordRbp \o Decimal(stack_offset) \o <<"]", ",", " ">>
                        \o FormatI64(initializer.value)>>,
              environment |-> allocated]
        ELSE IF /\ initializer.type = "VariableAccess"
                /\ get_variable_stack_offset(environment, initializer.name) # None
        THEN [instructions |->
                  <<MovDwordRax
                        \o Decimal(get_variable_stack_offset(
                                       environment, initializer.name)[1])
                        \o <<"]">>,
                    MovDwordRbp \o Decimal(stack_offset)
                        \o <<"]", ",", " ", "r", "a", "x">>>>,
              environment |-> allocated]
        ELSE Panic

\* [instructions, environment], or Panic
emit_variable_declaration(environment, name, initializer) ==
    LET allocated == allocate_variable(environment, name)
        stack_offset == get_variable_stack_offset(allocated, name)[1]
    IN  IF initializer.type = "Constant"
        THEN [instructions |->
                  <<MovDwordRbp \o Decimal(stack_offset) \o <<"]", ",", " ">>
                        \o FormatI64(initializer.value)>>,
              environment |-> allocated]
        ELSE Panic

\* the argument moved from its slot straight into rdi
emit_function_call_direct(environment, name, args) ==
    IF Len(args) # 1 THEN Panic
    ELSE IF args[1].type = "Constant"
    THEN [instructions |->
              <<MovDwordRdi \o FormatI64(args[1].value), CallText \o name>>,
          environment |-> environment]
    ELSE IF args[1].type = "VariableAccess"
    THEN LET stack_offset ==
                 get_variable_stack_offset(environment, args[1].name)
         IN  IF stack_offset = None THEN Panic
             ELSE [instructions |->
                       <<MovDwordRdi \o <<"[", "r", "b", "p", " ", "-", " ">>
                             \o Decimal(stack_offset[1]) \o <<"]">>,
                         CallText \o name>>,
                   environment |-> environment]
    ELSE Panic

emit_function_call(environment, name, args) ==
    IF Len(args) # 1 THEN Panic
    ELSE IF args[1].type = "Constant"
    THEN [instructions |->
              <<MovDwordRdi \o FormatI64(args[1].value), CallText \o name>>,
          environment |-> environment]
    ELSE IF args[1].type = "VariableAccess"
    THEN LET stack_offset ==
                 get_variable_stack_offset(environment, args[1].name)
         IN  IF stack_offset = None THEN Panic
             ELSE [instructions |->
                       <<MovDwordRax \o Decimal(stack_offset[1]) \o <<"]">>,
                         MovDwordRdi \o <<"r", "a", "x">>, CallText \o name>>,
                   environment |-> environment]
    ELSE Panic

\* an expression statement that is not a call emits nothing
emit_expression_skipping(environment, expression) ==
    IF expression.type = "Call"
    THEN emit_function_call(environment, expression.name, expression.args)
    ELSE [instructions |-> <<>>, environment |-> environment]

emit_expression(environment, expression) ==
    IF expression.type = "Call"
    THEN emit_function_call(environment, expression.name, expression.args)
    ELSE Panic

emit_statement(environment, statement) ==
    IF statement.type = "Expression"
    THEN emit_expression(environment, statement.expression)
    ELSE emit_variable_declaration(environment, statement.name,
                                   statement.value)

-----------------------------------------------------------------------------
(***************************************************************************)
(* The passes as steps.                                                    *)
(***************************************************************************)
lexVars == <<source, tokenizer, lexed>>
parseVars == <<parser, parsed, diagnostic>>
evalVars == <<evaluator, evaluated, previous>>
anfVars == <<pass, normalized>>
genVars == <<codegen, instructions, file>>

\* overflow checks are on in a debug build (cargo build, cargo test) and off
\* in a release build (tests/runner.rs builds with --release)
OverflowChecks == build = "debug"

\* evaluate: one statement of the map over program.statements
EvaluateStatement ==
    /\ pc = "evaluate"
    /\ Len(evaluator.statements) < Len(evaluator.program.statements)
    /\ LET statement ==
               evaluate_statement(
                   evaluator.program.statements[Len(evaluator.statements) + 1],
                   OverflowChecks)
       IN  IF statement = Panic
           THEN /\ pc' = "panic"
                /\ UNCHANGED evaluator
           ELSE /\ pc' = pc
                /\ evaluator' =
                       [evaluator EXCEPT !.statements = Append(@, statement)]
    /\ UNCHANGED <<build, lexVars, parseVars, evaluated, previous, anfVars,
                   genVars>>

\* evaluate: collect() and return the Program
EvaluateReturn ==
    /\ pc = "evaluate"
    /\ Len(evaluator.statements) = Len(evaluator.program.statements)
    /\ evaluated' = Some(Program(evaluator.statements))
    /\ pc' = "evaluated"
    /\ UNCHANGED <<build, lexVars, parseVars, evaluator, previous, anfVars,
                   genVars>>

\* PartialEvaluator::new(result).evaluate(): the pass applied to its own result
EvaluateAgain ==
    /\ pc = "evaluated"
    /\ previous = None
    /\ previous' = Some([program |-> evaluator.program, result |-> evaluated[1]])
    /\ evaluator' = NewEvaluator(evaluated[1])
    /\ evaluated' = None
    /\ pc' = "evaluate"
    /\ UNCHANGED <<build, lexVars, parseVars, anfVars, genVars>>

\* run: one statement of the flat_map over program.statements
RunStatement ==
    /\ pc = "anf"
    /\ pass.next <= Len(pass.program.statements)
    /\ LET result == transform_statement(pass.program.statements[pass.next],
                                         pass.temp_variable_index,
                                         OverflowChecks)
       IN  IF result = Panic
           THEN /\ pc' = "panic"
                /\ UNCHANGED pass
           ELSE /\ pc' = pc
                /\ pass' = [pass EXCEPT
                               !.temp_variable_index = result.index,
                               !.statements = @ \o result.new_statements,
                               !.next = @ + 1]
    /\ UNCHANGED <<build, lexVars, parseVars, evalVars, normalized, genVars>>

\* run: collect() and return the Program
RunReturn ==
    /\ pc = "anf"
    /\ pass.next > Len(pass.program.statements)
    /\ normalized' = Some(Program(pass.statements))
    /\ pc' = "normalized"
    /\ UNCHANGED <<build, lexVars, parseVars, evalVars, pass, genVars>>

\* tokenize: one iteration of the loop
TokenizeToken ==
    /\ pc = "tokenize"
    /\ ~is_at_end(tokenizer)
    /\ LET result == consume_token(
                         [tokenizer EXCEPT !.current_token_start = tokenizer.cursor])
       IN  IF result = Panic
           THEN /\ pc' = "panic"
                /\ UNCHANGED tokenizer
           ELSE /\ pc' = pc
                /\ tokenizer' =
                       [result.self EXCEPT !.tokens =
                            IF result.token = None THEN @
                            ELSE Append(@, result.token[1])]
    /\ UNCHANGED <<build, source, lexed, parseVars, evalVars, anfVars, genVars>>

\* tokenize: push Eof and return the tokens
TokenizeReturn ==
    /\ pc = "tokenize"
    /\ is_at_end(tokenizer)
    /\ tokenizer' = [tokenizer EXCEPT !.tokens =
                         Append(@, make_token(tokenizer, "Eof"))]
    /\ lexed' = Some(tokenizer'.tokens)
    /\ pc' = "lexed"
    /\ UNCHANGED <<build, source, parseVars, evalVars, anfVars, genVars>>

\* main: Parser::new(tokens)
ParserNew ==
    /\ pc = "lexed"
    /\ parser' = NewParser(lexed[1])
    /\ pc' = "parse"
    /\ UNCHANGED <<build, lexVars, parsed, diagnostic, evalVars, anfVars,
                   genVars>>

\* parse: one iteration of the loop
ParseStatement ==
    /\ pc = "parse"
    /\ ~parser_is_at_end(parser)
    /\ LET result == parse_statement(parser)
       IN  IF IsPanic(result)
           THEN /\ pc' = "panic"
                /\ diagnostic' = Some(result.stderr)
                /\ UNCHANGED parser
           ELSE /\ pc' = pc
                /\ parser' = [result.self EXCEPT !.statements =
                                  Append(@, result.statement)]
                /\ UNCHANGED diagnostic
    /\ UNCHANGED <<build, lexVars, parsed, evalVars, anfVars, genVars>>

\* parse: return the Program
ParseReturn ==
    /\ pc = "parse"
    /\ parser_is_at_end(parser)
    /\ parsed' = Some(Program(parser.statements))
    /\ pc' = "parsed"
    /\ UNCHANGED <<build, lexVars, parser, diagnostic, evalVars, anfVars,
                   genVars>>

\* generate: let prelude = self.emit_prelude()
GeneratePrelude ==
    /\ pc = "generate"
    /\ codegen.prelude = None
    /\ codegen' = [codegen EXCEPT !.prelude = Some(emit_prelude)]
    /\ UNCHANGED <<pc, build, lexVars, parseVars, evalVars, anfVars,
                   instructions, file>>

\* generate: let stack_space_allocation = self.emit_stack_space_allocation()
GenerateStackSpaceAllocation ==
    /\ pc = "generate"
    /\ codegen.prelude # None
    /\ codegen.stack_space_allocation = None
    /\ codegen' = [codegen EXCEPT !.stack_space_allocation =
                       Some(emit_stack_space_allocation(codegen.program))]
    /\ UNCHANGED <<pc, build, lexVars, parseVars, evalVars, anfVars,
                   instructions, file>>

\* generate: one statement of the flat_map over program.statements
GenerateStatement ==
    /\ pc = "generate"
    /\ codegen.stack_space_allocation # None
    /\ codegen.next <= Len(codegen.program.statements)
    /\ LET result == emit_statement(codegen.environment,
                                    codegen.program.statements[codegen.next])
       IN  IF result = Panic
           THEN /\ pc' = "panic"
                /\ UNCHANGED codegen
           ELSE /\ pc' = pc
                /\ codegen' = [codegen EXCEPT
                                  !.environment = result.environment,
                                  !.program_instructions =
                                      @ \o result.instructions,
                                  !.next = @ + 1]
    /\ UNCHANGED <<build, lexVars, parseVars, evalVars, anfVars, instructions,
                   file>>

\* generate: the epilogue, and the concatenation returned
GenerateReturn ==
    /\ pc = "generate"
    /\ codegen.stack_space_allocation # None
    /\ codegen.next > Len(codegen.program.statements)
    /\ instructions' = Some(codegen.prelude[1]
                                \o codegen.stack_space_allocation[1]
                                \o codegen.program_instructions
                                \o emit_epilogue)
    /\ pc' = "generated"
    /\ UNCHANGED <<build, lexVars, parseVars, evalVars, anfVars, codegen, file>>

\* main: File::create(&asm_path) on the instructions generate returned
MainCreateFile ==
    /\ pc = "generated"
    /\ file' = Some(<<>>)
    /\ pc' = "write"
    /\ UNCHANGED <<build, lexVars, parseVars, evalVars, anfVars, codegen,
                   instructions>>

\* main: one writeln!(file, "{}", instruction) of the loop
MainWriteLine ==
    /\ pc = "write"
    /\ Len(file[1]) < Len(instructions[1])
    /\ file' = Some(Append(file[1], instructions[1][Len(file[1]) + 1]))
    /\ UNCHANGED <<pc, build, lexVars, parseVars, evalVars, anfVars, codegen,
                   instructions>>

\* main: PartialEvaluator::new(program) on the program parse returned
MainEvaluate ==
    /\ pc = "parsed"
    /\ evaluator' = NewEvaluator(parsed[1])
    /\ pc' = "evaluate"
    /\ UNCHANGED <<build, lexVars, parseVars, evaluated, previous, anfVars,
                   genVars>>

\* main: RemoveComplexOperandsPass::new(program) on the program evaluate
\* returned
MainRun ==
    /\ pc = "evaluated"
    /\ pass' = NewPass(evaluated[1])
    /\ pc' = "anf"
    /\ UNCHANGED <<build, lexVars, parseVars, evalVars, normalized, genVars>>

\* main: X86AssemblyCodegen::new(program) on the program run returned
MainGenerate ==
    /\ pc = "normalized"
    /\ codegen' = NewCodegen(normalized[1])
    /\ pc' = "generate"
    /\ UNCHANGED <<build, lexVars, parseVars, evalVars, anfVars, instructions,
                   file>>

-----------------------------------------------------------------------------
(***************************************************************************)
(* The evaluator on bounded modules.                                       *)
(***************************************************************************)
Name(c) == <<c>>
GetValue == <<"g", "e", "t", "_", "v", "a", "l", "u", "e">>

EvalLeaves ==
    { Constant(I64(1)), Constant(I64Max), VariableAccess(Name("x")),
      Call(GetValue, <<>>) }

\* tests::evaluate_binary_op_with_nested_expressions: 8 - (-(3 + 1) + (1 + 1))
NestedExpression ==
    BinaryOp(Constant(I64(8)), "Sub",
             BinaryOp(UnaryOp("Sub", BinaryOp(Constant(I64(3)), "Add",
                                              Constant(I64(1)))),
                      "Add",
                      BinaryOp(Constant(I64(1)), "Add", Constant(I64(1)))))

\* tests::do_not_evalute_when_there_is_runtime_expressions:
\* x - (-(3 + get_value()) + (1 + 1))
RuntimeExpression ==
    BinaryOp(VariableAccess(Name("x")), "Sub",
             BinaryOp(UnaryOp("Sub", BinaryOp(Constant(I64(3)), "Add",
                                              Call(GetValue, <<>>))),
                      "Add",
                      BinaryOp(Constant(I64(1)), "Add", Constant(I64(1)))))

EvalModules ==
    ModulesUpTo(EvalLeaves, {Name("y")}, MaxModuleSize)
    \cup { <<ExpressionStatement(NestedExpression)>>,
           <<VariableDeclaration(<<"f", "o", "o">>, NestedExpression)>>,
           <<ExpressionStatement(RuntimeExpression)>>,
           \* x + (1 + 2)
           <<ExpressionStatement(
                 BinaryOp(VariableAccess(Name("x")), "Add",
                          BinaryOp(Constant(I64(1)), "Add", Constant(I64(2)))))>> }

InitEval ==
    /\ pc = "evaluate"
    /\ build \in {"debug", "release"}
    /\ source = <<>>
    /\ tokenizer = NewTokenizer
    /\ lexed = None
    /\ parser = NewParser(<<>>)
    /\ parsed = None
    /\ diagnostic = None
    /\ evaluator \in { NewEvaluator(Program(m)) : m \in EvalModules }
    /\ evaluated = None
    /\ previous = None
    /\ pass = NewPass(Program(<<>>))
    /\ normalized = None
    /\ codegen = NewCodegen(Program(<<>>))
    /\ instructions = None
    /\ file = None

NextEval == EvaluateStatement \/ EvaluateReturn \/ EvaluateAgain

SpecEval == InitEval /\ [][NextEval]_vars


-----------------------------------------------------------------------------
(***************************************************************************)
(* The ANF pass on bounded modules.                                        *)
(***************************************************************************)
RECURSIVE ArgLists(_, _, _)

\* expression trees with calls: a call costs one node plus its arguments
RECURSIVE CallExprsOfSize(_, _, _)
CallExprsOfSize(leaves, names, n) ==
    IF n = 1 THEN leaves
    ELSE { UnaryOp("Sub", e) : e \in CallExprsOfSize(leaves, names, n - 1) }
         \cup UNION { { BinaryOp(l, op, r) :
                            l \in CallExprsOfSize(leaves, names, k),
                            op \in {"Add", "Sub"},
                            r \in CallExprsOfSize(leaves, names, n - 1 - k) } :
                      k \in 1..(n - 2) }
         \cup { Call(name, args) :
                    name \in names,
                    args \in ArgLists(leaves, names, n - 1) }

\* one or two arguments of n nodes in all
ArgLists(leaves, names, n) ==
    { <<e>> : e \in CallExprsOfSize(leaves, names, n) }
    \cup UNION { { <<a, b>> : a \in CallExprsOfSize(leaves, names, k),
                              b \in CallExprsOfSize(leaves, names, n - k) } :
                 k \in 1..(n - 1) }

RECURSIVE AnfModulesOfSize(_, _, _, _)
AnfModulesOfSize(leaves, calls, names, n) ==
    IF n = 0 THEN { <<>> }
    ELSE UNION { { <<s>> \o m :
                       s \in { ExpressionStatement(e) :
                                   e \in CallExprsOfSize(leaves, calls, k - 1) }
                             \cup { VariableDeclaration(name, e) :
                                        name \in names,
                                        e \in CallExprsOfSize(leaves, calls, k - 1) },
                       m \in AnfModulesOfSize(leaves, calls, names, n - k) } :
                 k \in 2..n }

GetNumber == <<"g", "e", "t", "_", "n", "u", "m", "b", "e", "r">>
GetNumber2 == GetNumber \o <<"_", "2">>
GetNumber3 == GetNumber \o <<"_", "3">>
TestName == <<"t", "e", "s", "t">>
PrintInt == <<"p", "r", "i", "n", "t", "_", "i", "n", "t">>

\* test::transform_method_call_into_variable_access:
\* (get_number() + get_number_2(get_number_3())) - 3
MethodCallExpression ==
    BinaryOp(BinaryOp(Call(GetNumber, <<>>), "Add",
                      Call(GetNumber2, <<Call(GetNumber3, <<>>)>>)),
             "Sub", Constant(I64(3)))

\* test::test: (3 + -4) - -get_number()
NegatedCallExpression ==
    BinaryOp(BinaryOp(Constant(I64(3)), "Add",
                      UnaryOp("Sub", Constant(I64(4)))),
             "Sub", UnaryOp("Sub", Call(GetNumber, <<>>)))

AnfLeaves ==
    { Constant(I64(3)), VariableAccess(Name("x")), Call(Name("f"), <<>>) }

AnfModules ==
    UNION { AnfModulesOfSize(AnfLeaves, {Name("g")},
                             {Name("y"), Name("z"), TmpPrefix \o <<"0">>}, k) :
            k \in 0..MaxModuleSize }
    \cup { <<VariableDeclaration(TestName, MethodCallExpression)>>,
           <<VariableDeclaration(TestName, NegatedCallExpression)>>,
           \* print_int(x);
           <<ExpressionStatement(Call(PrintInt, <<VariableAccess(Name("x"))>>))>> }
    \* call-free modules that read the variables they declare
    \cup UNION { AnfModulesOfSize({Constant(I64(3)), VariableAccess(Name("y"))},
                                  {}, {Name("y"), Name("z")}, k) :
                 k \in 0..MaxModuleSize }

InitAnf ==
    /\ pc = "anf"
    /\ build \in {"debug", "release"}
    /\ source = <<>>
    /\ tokenizer = NewTokenizer
    /\ lexed = None
    /\ parser = NewParser(<<>>)
    /\ parsed = None
    /\ diagnostic = None
    /\ evaluator = NewEvaluator(Program(<<>>))
    /\ evaluated = None
    /\ previous = None
    /\ pass \in { NewPass(Program(m)) : m \in AnfModules }
    /\ normalized = None
    /\ codegen = NewCodegen(Program(<<>>))
    /\ instructions = None
    /\ file = None

NextAnf == RunStatement \/ RunReturn

SpecAnf == InitAnf /\ [][NextAnf]_vars

-----------------------------------------------------------------------------
(***************************************************************************)
(* The code generator on bounded modules.                                  *)
(***************************************************************************)
MaxStatements == 5

Foo == <<"f", "o", "o">>
Bar == <<"b", "a", "r">>
Baz == <<"b", "a", "z">>

\* statements generate emits
Emittable ==
    { VariableDeclaration(Foo, Constant(I64(4))),
      VariableDeclaration(Bar, Constant(I64Max)),
      ExpressionStatement(Call(PrintInt, <<Constant(I64(-42))>>)),
      ExpressionStatement(Call(PrintInt, <<VariableAccess(Foo)>>)) }

\* statements generate stops at
Unemittable ==
    { VariableDeclaration(Foo, VariableAccess(Bar)),
      VariableDeclaration(Foo, UnaryOp("Sub", Constant(I64(4)))),
      ExpressionStatement(Constant(I64(4))),
      ExpressionStatement(Call(PrintInt, <<>>)),
      ExpressionStatement(Call(PrintInt, <<Constant(I64(4)), Constant(I64(4))>>)),
      ExpressionStatement(Call(PrintInt, <<Call(GetValue, <<>>)>>)) }

\* test::declare_variable_with_constant_initializer
ThreeDeclarations ==
    << VariableDeclaration(Foo, Constant(I64(4))),
       VariableDeclaration(Bar, Constant(I64(42))),
       VariableDeclaration(Baz, Constant(I64(127))) >>

\* test::emit_function_call_with_constant_argument
CallWithConstant == <<ExpressionStatement(Call(PrintInt, <<Constant(I64(4))>>))>>

GenModules ==
    LET emitted == UNION { [1..k -> Emittable] : k \in 0..MaxStatements }
    IN  emitted
            \cup { Append(m, s) : m \in emitted, s \in Unemittable }
            \cup {ThreeDeclarations, CallWithConstant}

InitGen ==
    /\ pc = "generate"
    /\ build \in {"debug", "release"}
    /\ source = <<>>
    /\ tokenizer = NewTokenizer
    /\ lexed = None
    /\ parser = NewParser(<<>>)
    /\ parsed = None
    /\ diagnostic = None
    /\ evaluator = NewEvaluator(Program(<<>>))
    /\ evaluated = None
    /\ previous = None
    /\ pass = NewPass(Program(<<>>))
    /\ normalized = None
    /\ codegen \in { NewCodegen(Program(m)) : m \in GenModules }
    /\ instructions = None
    /\ file = None

NextGen ==
    \/ GeneratePrelude
    \/ GenerateStackSpaceAllocation
    \/ GenerateStatement
    \/ GenerateReturn
    \/ MainCreateFile
    \/ MainWriteLine

SpecGen == InitGen /\ [][NextGen]_vars

-----------------------------------------------------------------------------
(***************************************************************************)
(* The tokenizer on bounded sources.                                       *)
(***************************************************************************)
MaxSourceLen == 4

\* the source of test::tokenize_identifier_and_keyword
LetNumber ==
    <<"l", "e", "t", " ", "n", "u", "m", "b", "e", "r", "=",
      "1", "2", "3", "4", ";">>

\* the end of the source of test::tokenize_correctly
NotNotEquals == <<"\n", " ", "!", " ", " ", "!", "=", " ", "\n", "(", ")", ";", "\n">>

\* a name of the form the ANF pass mints
TmpZero == <<"t", "m", "p", "_", "0">>

\* keywords, and identifiers that begin or end with one; digits next to letters
KeywordsAndNames ==
    <<"l", "e", "t", " ", "c", "o", "n", "s", "t", " ", "l", "e", "t", "s", " ", "_", "l", "e", "t", " ", "1", "2", "a", "b", "_", "3", "4">>

LexSources ==
    UNION { [1..k -> {" ", "\n", "-", ">", "=", "!", ":", "\"", "1", "a", "#"}] :
            k \in 0..MaxSourceLen }
        \cup {LetNumber, NotNotEquals, TmpZero, KeywordsAndNames}
        \* a string that holds an escaped quote, alone and after a token
        \cup { <<"\"", "\\", "\"", "\"">>,
               <<"!", " ", "\"", "a", "\\", "\"", "a", "\"">> }

InitLex ==
    /\ pc = "tokenize"
    /\ build \in {"debug", "release"}
    /\ source \in LexSources
    /\ tokenizer = NewTokenizer
    /\ lexed = None
    /\ parser = NewParser(<<>>)
    /\ parsed = None
    /\ diagnostic = None
    /\ evaluator = NewEvaluator(Program(<<>>))
    /\ evaluated = None
    /\ previous = None
    /\ pass = NewPass(Program(<<>>))
    /\ normalized = None
    /\ codegen = NewCodegen(Program(<<>>))
    /\ instructions = None
    /\ file = None

NextLex == TokenizeToken \/ TokenizeReturn

SpecLex == InitLex /\ [][NextLex]_vars

-----------------------------------------------------------------------------
(***************************************************************************)
(* Tokenizer and parser on the sources the grammar derives.  A derivation  *)
(* is written as the tree of its rules: term, factor, call, unary,         *)
(* primary, with "Mul" and "Div" for the factor rule's operators.          *)
(***************************************************************************)
MaxDerivationSize == 5

RECURSIVE Primaries(_, _)
RECURSIVE Unaries(_, _)
RECURSIVE Calls(_, _)
RECURSIVE Factors(_, _)
RECURSIVE Terms(_, _)

\* primary := IDENT | NUMBER | "(" expression ")"
Primaries(leaves, n) ==
    IF n = 1 THEN leaves ELSE { Grouping(e) : e \in Terms(leaves, n - 1) }

\* unary := "-" unary | primary
Unaries(leaves, n) ==
    Primaries(leaves, n)
        \cup (IF n = 1 THEN {}
              ELSE { UnaryOp("Sub", u) : u \in Unaries(leaves, n - 1) })

\* call := unary ( "(" args ")" ";" )?, the callee an identifier
Calls(leaves, n) ==
    Unaries(leaves, n)
        \cup (IF n = 1 THEN {}
              ELSE { Call(PrintInt, <<e>>) : e \in Terms(leaves, n - 1) })

\* factor := call ( ("*" | "/") call )*
Factors(leaves, n) ==
    Calls(leaves, n)
        \cup UNION { { BinaryOp(l, op, r) : l \in Factors(leaves, i),
                                            op \in {"Mul", "Div"},
                                            r \in Calls(leaves, n - 1 - i) } :
                     i \in 1..(n - 2) }

\* term := factor ( ("+" | "-") factor )*
Terms(leaves, n) ==
    Factors(leaves, n)
        \cup UNION { { BinaryOp(l, op, r) : l \in Terms(leaves, i),
                                            op \in {"Add", "Sub"},
                                            r \in Factors(leaves, n - 1 - i) } :
                     i \in 1..(n - 2) }

OperatorText(operator) ==
    CASE operator = "Add" -> <<"+">>
      [] operator = "Sub" -> <<"-">>
      [] operator = "Mul" -> <<"*">>
      [] operator = "Div" -> <<"/">>

RECURSIVE Unparse(_)
\* the text a derivation derives
Unparse(e) ==
    CASE e.type = "Constant" -> FormatI64(e.value)
      [] e.type = "VariableAccess" -> e.name
      [] e.type = "Grouping" -> <<"(">> \o Unparse(e.expression) \o <<")">>
      [] e.type = "UnaryOp" -> <<"-">> \o Unparse(e.operand)
      [] e.type = "BinaryOp" ->
            Unparse(e.left) \o <<" ">> \o OperatorText(e.operator) \o <<" ">>
                \o Unparse(e.right)
      [] e.type = "Call" ->
            e.name \o <<"(">> \o Unparse(e.args[1]) \o <<")", ";">>

\* variable_decl := "let" IDENT "=" expression ";"
\* expression_stmt := expression ";"   (the call form has consumed its ';')
UnparseStatement(statement) ==
    IF statement.type = "VariableDeclaration"
    THEN <<"l", "e", "t", " ">> \o statement.name \o <<" ", "=", " ">>
             \o Unparse(statement.value) \o <<";">>
    ELSE Unparse(statement.expression)
             \o (IF statement.expression.type = "Call" THEN <<>> ELSE <<";">>)

RECURSIVE UnparseModule(_)
UnparseModule(statements) ==
    IF statements = <<>> THEN <<>>
    ELSE UnparseStatement(Head(statements)) \o <<"\n">>
             \o UnparseModule(Tail(statements))

DerivedLeaves == {VariableAccess(Name("y")), Constant(I64(4))}

DerivedStatements(n) ==
    { ExpressionStatement(e) : e \in Terms(DerivedLeaves, n) }
        \cup { VariableDeclaration(Name("x"), e) : e \in Terms(DerivedLeaves, n) }

\* print_int(4);
PrintIntFour == <<ExpressionStatement(Call(PrintInt, <<Constant(I64(4))>>))>>

\* let x = -y + 2;
NegatedPlusTwo ==
    <<VariableDeclaration(Name("x"),
                          BinaryOp(UnaryOp("Sub", VariableAccess(Name("y"))),
                                   "Add", Constant(I64(2))))>>

\* let x = a - b - c;
SubtractTwice ==
    <<VariableDeclaration(Name("x"),
          BinaryOp(BinaryOp(VariableAccess(Name("a")), "Sub",
                            VariableAccess(Name("b"))),
                   "Sub", VariableAccess(Name("c"))))>>

\* let x = a + b * c;
AddProduct ==
    <<VariableDeclaration(Name("x"),
          BinaryOp(VariableAccess(Name("a")), "Add",
                   BinaryOp(VariableAccess(Name("b")), "Mul",
                            VariableAccess(Name("c")))))>>

DerivedModules ==
    {<<>>}
        \cup UNION { { <<s>> : s \in DerivedStatements(n) } :
                     n \in 1..MaxDerivationSize }
        \cup { <<s, t>> : s \in DerivedStatements(1), t \in DerivedStatements(1) }
        \cup {PrintIntFour, NegatedPlusTwo, SubtractTwice, AddProduct}

\* sources the grammar does not derive: a token that is not the required
\* one, or no expression where one has to start, on the first line and later
Malformed ==
    { <<"l", "e", "t", " ", "x", " ", "4", ";">>,
      <<"l", "e", "t", " ", "=", " ", "4", ";">>,
      <<"l", "e", "t", " ", "x", " ", "=", " ", ";">>,
      <<"l", "e", "t", " ", "x", " ", "=", " ", "(", "4", ";">>,
      <<"l", "e", "t", " ", "x", " ", "=", " ", "4", ";">> \o <<"\n">> \o <<" ", " ", "l", "e", "t", " ", "x", " ", "=", " ", "4", " ", "4", ";">>,
      <<"l", "e", "t", " ", "x", " ", "=", " ", "4", ";">> \o <<"\n">> \o <<" ", "l", "e", "t", " ", "x", " ", "=", " ", "+", ";">>,
      \* sources that end inside a statement
      <<"l", "e", "t">>,
      <<"l", "e", "t", " ", "x", " ", "=">>,
      <<"l", "e", "t", " ", "x", " ", "=", " ", "4">>,
      <<"l", "e", "t", " ", "x", " ", "=", " ", "4", ";", "\n", "l", "e", "t", " ", "x", " ", "=", " ", "4">>,
      <<"4", " ", "+">>,
      <<"-">>,
      <<"f", "(">>,
      <<"f", "(", "y", ")">>,
      <<"(", "4">> }

InitParse ==
    /\ pc = "tokenize"
    /\ build \in {"debug", "release"}
    /\ \/ \E m \in DerivedModules : source = UnparseModule(m)
       \/ source \in Malformed
    /\ tokenizer = NewTokenizer
    /\ lexed = None
    /\ parser = NewParser(<<>>)
    /\ parsed = None
    /\ diagnostic = None
    /\ evaluator = NewEvaluator(Program(<<>>))
    /\ evaluated = None
    /\ previous = None
    /\ pass = NewPass(Program(<<>>))
    /\ normalized = None
    /\ codegen = NewCodegen(Program(<<>>))
    /\ instructions = None
    /\ file = None

NextParse ==
    \/ TokenizeToken
    \/ TokenizeReturn
    \/ ParserNew
    \/ ParseStatement
    \/ ParseReturn

SpecParse == InitParse /\ [][NextParse]_vars

-----------------------------------------------------------------------------
(***************************************************************************)
(* The driver: every pass in turn, on bounded sources.  No source has      *)
(* parentheses around an expression: parser.rs builds Expression::Grouping *)
(* for them, a variant the enum of ast.rs does not have.                   *)
(***************************************************************************)
\* statements plus expression nodes of the module a source is written from
MaxDriverSize == 5

InitMain ==
    /\ pc = "tokenize"
    /\ build \in {"debug", "release"}
    /\ \/ \E m \in ModulesUpTo({Constant(I64(4)), Constant(I64(1)),
                                 Constant(I64Max), VariableAccess(Name("y"))},
                                {Name("x"), Name("y")}, MaxDriverSize) :
              source = UnparseModule(m)
       \* print_int(y);   let y = 4; let x = y;   let x = f(y);;   let x = f(y);
       \/ source \in
              { UnparseModule(<<ExpressionStatement(
                                   Call(PrintInt, <<VariableAccess(Name("y"))>>))>>),
                UnparseModule(<<VariableDeclaration(Name("y"), Constant(I64(4))),
                                VariableDeclaration(Name("x"),
                                                    VariableAccess(Name("y")))>>),
                UnparseModule(<<VariableDeclaration(
                                    Name("x"),
                                    Call(Name("f"), <<VariableAccess(Name("y"))>>))>>),
                <<"l", "e", "t", " ", "x", " ", "=", " ", "f", "(", "y", ")", ";">> }
    /\ tokenizer = NewTokenizer
    /\ lexed = None
    /\ parser = NewParser(<<>>)
    /\ parsed = None
    /\ diagnostic = None
    /\ evaluator = NewEvaluator(Program(<<>>))
    /\ evaluated = None
    /\ previous = None
    /\ pass = NewPass(Program(<<>>))
    /\ normalized = None
    /\ codegen = NewCodegen(Program(<<>>))
    /\ instructions = None
    /\ file = None

NextMain ==
    \/ TokenizeToken
    \/ TokenizeReturn
    \/ ParserNew
    \/ ParseStatement
    \/ ParseReturn
    \/ MainEvaluate
    \/ EvaluateStatement
    \/ EvaluateReturn
    \/ MainRun
    \/ RunStatement
    \/ RunReturn
    \/ MainGenerate
    \/ GeneratePrelude
    \/ GenerateStackSpaceAllocation
    \/ GenerateStatement
    \/ GenerateReturn
    \/ MainCreateFile
    \/ MainWriteLine

SpecMain == InitMain /\ [][NextMain]_vars

-----------------------------------------------------------------------------
(***************************************************************************)
(* Properties of the evaluator.                                            *)
(***************************************************************************)
StatementExpression(statement) ==
    IF statement.type = "Expression" THEN statement.expression
    ELSE statement.value

\* built only from constants, unary negation, addition and subtraction
RECURSIVE ConstantOnly(_)
ConstantOnly(e) ==
    CASE e.type = "Constant" -> TRUE
      [] e.type = "UnaryOp" -> e.operator = "Sub" /\ ConstantOnly(e.operand)
      [] e.type = "BinaryOp" -> ConstantOnly(e.left) /\ ConstantOnly(e.right)
      [] OTHER -> FALSE

RECURSIVE ContainsRuntime(_)
ContainsRuntime(e) ==
    CASE e.type \in {"VariableAccess", "Call"} -> TRUE
      [] e.type = "UnaryOp" -> ContainsRuntime(e.operand)
      [] e.type = "BinaryOp" -> ContainsRuntime(e.left) \/ ContainsRuntime(e.right)
      [] OTHER -> FALSE

\* The exact integer a * 2^63 + b as the pair <<a, b>>, b small: the
\* arithmetic of the integers, with no width.
Exact(value) ==
    CASE value[1] = 0 /\ value[2] = 0 -> <<0, value[3]>>
      [] value[1] = -1 /\ value[2] = LimbBase - 1 -> <<0, value[3] - LimbBase>>
      [] value[1] = TopBound - 1 /\ value[2] = LimbBase - 1 ->
            <<1, value[3] - LimbBase>>
      [] value[1] = -TopBound /\ value[2] = 0 -> <<-1, value[3]>>

RECURSIVE MathValue(_)
MathValue(e) ==
    CASE e.type = "Constant" -> Exact(e.value)
      [] e.type = "UnaryOp" ->
            LET v == MathValue(e.operand) IN <<-v[1], -v[2]>>
      [] e.type = "BinaryOp" ->
            LET l == MathValue(e.left)
                r == MathValue(e.right)
            IN  IF e.operator = "Add" THEN <<l[1] + r[1], l[2] + r[2]>>
                ELSE <<l[1] - r[1], l[2] - r[2]>>

\* -2^63 <= a * 2^63 + b < 2^63
InRange(v) == v[1] = 0 \/ (v[1] = -1 /\ v[2] >= 0) \/ (v[1] = 1 /\ v[2] < 0)

RECURSIVE AllInRange(_)
AllInRange(e) ==
    /\ InRange(MathValue(e))
    /\ CASE e.type = "UnaryOp" -> AllInRange(e.operand)
         [] e.type = "BinaryOp" -> AllInRange(e.left) /\ AllInRange(e.right)
         [] OTHER -> TRUE

\* the limbs of an exact integer inside the range
Limbs(v) ==
    CASE v[1] = 0 -> I64(v[2])
      [] v[1] = -1 -> <<-TopBound, v[2] \div LimbBase, v[2] % LimbBase>>
      [] v[1] = 1 -> <<TopBound - 1, LimbBase + (v[2] \div LimbBase),
                       v[2] % LimbBase>>

Folded(statement) ==
    LET value == Constant(Limbs(MathValue(StatementExpression(statement))))
    IN  IF statement.type = "Expression" THEN ExpressionStatement(value)
        ELSE VariableDeclaration(statement.name, value)

Foldable(statement) ==
    /\ ConstantOnly(StatementExpression(statement))
    /\ AllInRange(StatementExpression(statement))

\* the statement evaluate is at, when it has one
CurrentStatement ==
    evaluator.program.statements[Len(evaluator.statements) + 1]

\* C4: an expression statement or a declaration whose expression is built
\* only from constants, unary negation, addition and subtraction, with every
\* intermediate value inside the signed 64-bit range, is replaced by the
\* Constant of its arithmetic value, and evaluate does not abort on it;
\* 8 - (-(3 + 1) + (1 + 1)) becomes Constant(10).
C4_FoldsConstantExpressions ==
    /\ \A i \in 1..Len(evaluator.statements) :
           Foldable(evaluator.program.statements[i]) =>
               evaluator.statements[i] = Folded(evaluator.program.statements[i])
    /\ pc = "panic" => ~Foldable(CurrentStatement)
    /\ (/\ evaluated # None
        /\ evaluator.program.statements = <<ExpressionStatement(NestedExpression)>>)
           => evaluated = Some(Program(<<ExpressionStatement(Constant(I64(10)))>>))

C4_Witness ==
    /\ evaluator.program.statements = <<ExpressionStatement(NestedExpression)>>
    /\ evaluated = Some(Program(<<ExpressionStatement(Constant(I64(10)))>>))

\* C5: when evaluate completes on a module and is applied again to its
\* result, the second result is structurally equal to the first.
C5_Idempotent ==
    (pc = "evaluated" /\ previous # None) => evaluated[1] = previous[1].result

C5_Witness ==
    /\ pc = "evaluated"
    /\ previous # None
    /\ previous[1].result # previous[1].program
    /\ evaluated[1] = previous[1].result

\* C6: a statement whose expression contains a variable access or a call
\* anywhere is returned by evaluate structurally equal to its input.
C6_RuntimeStatementUnchanged ==
    /\ \A i \in 1..Len(evaluator.statements) :
           ContainsRuntime(StatementExpression(evaluator.program.statements[i]))
               => evaluator.statements[i] = evaluator.program.statements[i]
    /\ pc = "panic" => ~ContainsRuntime(StatementExpression(CurrentStatement))


\* every sub-expression that consists only of constants stays inside the
\* signed 64-bit range at each step
RECURSIVE ConstantsInRange(_)
ConstantsInRange(e) ==
    IF ConstantOnly(e) THEN AllInRange(e)
    ELSE CASE e.type = "UnaryOp" -> ConstantsInRange(e.operand)
           [] e.type = "BinaryOp" ->
                 ConstantsInRange(e.left) /\ ConstantsInRange(e.right)
           [] OTHER -> TRUE

\* every sub-expression that consists only of constants replaced by the
\* constant of its value, the rest as it is
RECURSIVE PartlyFolded(_)
PartlyFolded(e) ==
    IF ConstantOnly(e) THEN Constant(Limbs(MathValue(e)))
    ELSE CASE e.type = "UnaryOp" -> UnaryOp(e.operator, PartlyFolded(e.operand))
           [] e.type = "BinaryOp" ->
                 BinaryOp(PartlyFolded(e.left), e.operator, PartlyFolded(e.right))
           [] OTHER -> e

\* C18: when a unary or binary expression cannot be folded as a whole
\* because it contains a variable access or a call, evaluate still replaces
\* every sub-expression of it that consists only of constants by its folded
\* constant and leaves the rest unchanged; x + (1 + 2) becomes x + 3.
C18_FoldsConstantSubexpressions ==
    /\ \A i \in 1..Len(evaluator.statements) :
           LET e == StatementExpression(evaluator.program.statements[i])
           IN  (ContainsRuntime(e) /\ ConstantsInRange(e)) =>
                   StatementExpression(evaluator.statements[i]) = PartlyFolded(e)
    /\ (/\ evaluated # None
        /\ evaluator.program.statements
               = <<ExpressionStatement(
                       BinaryOp(VariableAccess(Name("x")), "Add",
                                BinaryOp(Constant(I64(1)), "Add",
                                         Constant(I64(2)))))>>)
           => evaluated[1].statements
                  = <<ExpressionStatement(
                          BinaryOp(VariableAccess(Name("x")), "Add",
                                   Constant(I64(3))))>>

\* the exact integer a * 2^63 + b reduced modulo 2^64 into the signed 64-bit
\* range: the two's-complement wrapped value
Wrapped(v) ==
    IF v[1] % 2 = 0 THEN <<0, v[2]>>
    ELSE IF v[2] < 0 THEN <<1, v[2]>>
    ELSE <<-1, v[2]>>

\* a constant-only expression one of whose values leaves the 64-bit range
OverflowsWhenFolded(e) == ConstantOnly(e) /\ ~AllInRange(e)

\* the constant-only statements whose folding overflows are replaced by the
\* Constant of the wrapped value, and evaluate does not abort on one
FoldsToWrappedValue ==
    /\ \A i \in 1..Len(evaluator.statements) :
           LET e == StatementExpression(evaluator.program.statements[i])
           IN  OverflowsWhenFolded(e) =>
                   StatementExpression(evaluator.statements[i])
                       = Constant(Limbs(Wrapped(MathValue(e))))
    /\ pc = "panic" => ~OverflowsWhenFolded(StatementExpression(CurrentStatement))

\* C23: folding a constant addition, subtraction or negation whose exact
\* result lies outside the signed 64-bit range yields the Constant of the
\* two's-complement wrapped value (negating -2^63 gives -2^63, and
\* (2^63 - 1) + 1 gives -2^63); the evaluator neither aborts nor saturates.
C23_OverflowWraps ==
    /\ FoldsToWrappedValue
    /\ \A i \in 1..Len(evaluator.statements) :
           StatementExpression(evaluator.program.statements[i])
                   = BinaryOp(Constant(I64Max), "Add", Constant(I64(1)))
               => StatementExpression(evaluator.statements[i])
                      = Constant(<<-TopBound, 0, 0>>)

\* the same in a build without overflow checks
WrapsWithoutOverflowChecks == ~OverflowChecks => C23_OverflowWraps

\* -(-(2^63 - 1) - 1) has been folded to -2^63
NegatedMinimumWraps ==
    /\ ~OverflowChecks
    /\ \E i \in 1..Len(evaluator.statements) :
           /\ StatementExpression(evaluator.program.statements[i])
                  = UnaryOp("Sub", BinaryOp(UnaryOp("Sub", Constant(I64Max)),
                                            "Sub", Constant(I64(1))))
           /\ StatementExpression(evaluator.statements[i])
                  = Constant(<<-TopBound, 0, 0>>)

-----------------------------------------------------------------------------
(***************************************************************************)
(* Properties of the ANF pass.                                             *)
(***************************************************************************)
IsAtom(e) == e.type \in {"Constant", "VariableAccess"}

RECURSIVE OperandsAtomic(_)
OperandsAtomic(e) ==
    CASE e.type = "UnaryOp" -> IsAtom(e.operand) /\ OperandsAtomic(e.operand)
      [] e.type = "BinaryOp" ->
            /\ IsAtom(e.left) /\ OperandsAtomic(e.left)
            /\ IsAtom(e.right) /\ OperandsAtomic(e.right)
      [] e.type = "Call" ->
            \A i \in 1..Len(e.args) :
                IsAtom(e.args[i]) /\ OperandsAtomic(e.args[i])
      [] OTHER -> TRUE

AllAtomic(statements) ==
    \A i \in 1..Len(statements) :
        OperandsAtomic(StatementExpression(statements[i]))

\* C7: in the module returned by run (and in what run has emitted so far),
\* the operand of every unary op, both operands of every binary op and every
\* call argument are atoms, at any depth and in every statement.
C7_OperandsAreAtoms ==
    /\ AllAtomic(pass.statements)
    /\ normalized # None => AllAtomic(normalized[1].statements)

C7_Witness ==
    /\ normalized # None
    /\ Len(normalized[1].statements) >= 4
    /\ ~AllAtomic(pass.program.statements)

IsDigit(c) == \E i \in 1..10 : DigitChars[i] = c

\* tmp_<number>
IsTmpName(name) ==
    /\ Len(name) > 4
    /\ SubSeq(name, 1, 4) = <<"t", "m", "p", "_">>
    /\ \A i \in 5..Len(name) : IsDigit(name[i])

NameKind(name) == IF IsTmpName(name) THEN <<"tmp">> ELSE name

\* what a node is, without its operands
NodeHead(e) ==
    CASE e.type = "UnaryOp" -> [head |-> "UnaryOp", operator |-> e.operator]
      [] e.type = "BinaryOp" -> [head |-> "BinaryOp", operator |-> e.operator]
      [] e.type = "Call" ->
            [head |-> "Call", name |-> e.name, arity |-> Len(e.args)]
      [] OTHER -> [head |-> "Atom"]

RECURSIVE PostOrder(_)
RECURSIVE PostOrderOfAll(_)
\* the compound nodes of a tree, operands before the node, left to right
PostOrder(e) ==
    CASE e.type = "UnaryOp" -> Append(PostOrder(e.operand), NodeHead(e))
      [] e.type = "BinaryOp" ->
            Append(PostOrder(e.left) \o PostOrder(e.right), NodeHead(e))
      [] e.type = "Call" -> Append(PostOrderOfAll(e.args), NodeHead(e))
      [] OTHER -> <<>>

PostOrderOfAll(args) ==
    IF args = <<>> THEN <<>>
    ELSE PostOrder(Head(args)) \o PostOrderOfAll(Tail(args))

\* the declarations expected for one declaration: a temporary per compound
\* node in post-order, the root of a unary or binary initializer staying in
\* the declaration itself
ExpectedDeclarations(statement) ==
    LET heads == PostOrder(statement.value)
        own(head) == [head |-> head, name |-> NameKind(statement.name)]
        temporary(head) == [head |-> head, name |-> <<"tmp">>]
    IN  IF statement.value.type \in {"UnaryOp", "BinaryOp"}
        THEN [i \in 1..Len(heads) |->
                  IF i = Len(heads) THEN own(heads[i]) ELSE temporary(heads[i])]
        ELSE [i \in 1..Len(heads) |-> temporary(heads[i])]
             \o <<own([head |-> "Atom"])>>

RECURSIVE ExpectedOrder(_)
ExpectedOrder(statements) ==
    IF statements = <<>> THEN <<>>
    ELSE ExpectedDeclarations(Head(statements)) \o ExpectedOrder(Tail(statements))

EmittedOrder(statements) ==
    [i \in 1..Len(statements) |->
         [head |-> NodeHead(statements[i].value),
          name |-> NameKind(statements[i].name)]]

Tmp(k) == TmpPrefix \o <<DigitChars[k + 1]>>

\* the result test::transform_method_call_into_variable_access asserts
MethodCallResult ==
    << VariableDeclaration(Tmp(0), Call(GetNumber, <<>>)),
       VariableDeclaration(Tmp(1), Call(GetNumber3, <<>>)),
       VariableDeclaration(Tmp(2), Call(GetNumber2, <<VariableAccess(Tmp(1))>>)),
       VariableDeclaration(Tmp(3), BinaryOp(VariableAccess(Tmp(0)), "Add",
                                            VariableAccess(Tmp(2)))),
       VariableDeclaration(TestName, BinaryOp(VariableAccess(Tmp(3)), "Sub",
                                              Constant(I64(3)))) >>

\* the result test::test asserts
NegatedCallResult ==
    << VariableDeclaration(Tmp(0), UnaryOp("Sub", Constant(I64(4)))),
       VariableDeclaration(Tmp(1), BinaryOp(Constant(I64(3)), "Add",
                                            VariableAccess(Tmp(0)))),
       VariableDeclaration(Tmp(2), Call(GetNumber, <<>>)),
       VariableDeclaration(Tmp(3), UnaryOp("Sub", VariableAccess(Tmp(2)))),
       VariableDeclaration(TestName, BinaryOp(VariableAccess(Tmp(1)), "Sub",
                                              VariableAccess(Tmp(3)))) >>

\* C8: the declarations emitted for each declaration are one per compound
\* node of its initializer in left-to-right post-order (extras of the left
\* operand before those of the right, extras of arguments in argument order
\* and before the call's temporary, a node's temporary after the extras of
\* its operands), and the two test modules give the asserted results.
C8_ExtrasInPostOrder ==
    /\ EmittedOrder(pass.statements) =
           ExpectedOrder(SubSeq(pass.program.statements, 1, pass.next - 1))
    /\ (/\ normalized # None
        /\ pass.program.statements =
               <<VariableDeclaration(TestName, MethodCallExpression)>>)
           => normalized[1].statements = MethodCallResult
    /\ (/\ normalized # None
        /\ pass.program.statements =
               <<VariableDeclaration(TestName, NegatedCallExpression)>>)
           => normalized[1].statements = NegatedCallResult

C8_Witness ==
    /\ pass.program.statements =
           <<VariableDeclaration(TestName, MethodCallExpression)>>
    /\ normalized = Some(Program(MethodCallResult))

Distinct(names) ==
    \A i, j \in 1..Len(names) : i # j => names[i] # names[j]

DeclaredNames(statements) ==
    LET declarations ==
            SelectSeq(statements, LAMBDA s : s.type = "VariableDeclaration")
    IN  [i \in 1..Len(declarations) |-> declarations[i].name]

\* the temporaries among the names are tmp_0, tmp_1, ... in this order
NumberedInOrder(names) ==
    LET temporaries == SelectSeq(names, IsTmpName)
    IN  \A k \in 1..Len(temporaries) : temporaries[k] = Tmp(k - 1)

UserNamesConventional ==
    /\ Distinct(DeclaredNames(pass.program.statements))
    /\ \A i \in 1..Len(pass.program.statements) :
           pass.program.statements[i].type = "VariableDeclaration"
               => ~IsTmpName(pass.program.statements[i].name)

ReachesNonAtomicCase(statement) ==
    /\ statement.type = "VariableDeclaration"
    /\ statement.value.type \notin {"Constant", "VariableAccess"}

\* C19: in the module the ANF pass returns, the initializer of every variable
\* declaration is an atom, so that the generator's fatal case for a non
\* atomic initializer is not reached on any statement of it.
C19_InitializersAreAtoms ==
    normalized # None =>
        \A i \in 1..Len(normalized[1].statements) :
            LET statement == normalized[1].statements[i]
            IN  /\ statement.type = "VariableDeclaration" => IsAtom(statement.value)
                /\ ~ReachesNonAtomicCase(statement)

\* the pass is at an expression statement
AtExpressionStatement ==
    /\ pc = "anf"
    /\ pass.next <= Len(pass.program.statements)
    /\ pass.program.statements[pass.next].type = "Expression"

\* C20: for an expression statement the pass transforms the expression with
\* need_atom = false and emits the temporary declarations collected followed
\* by the rewritten expression statement; it completes for every expression
\* statement, e.g. print_int(x);
C20_ExpressionStatementTransformed ==
    [][AtExpressionStatement =>
           LET result ==
                   transform_expression(
                       pass.program.statements[pass.next].expression, FALSE,
                       pass.temp_variable_index, OverflowChecks)
           IN  result # Panic =>
                   /\ pc' = "anf"
                   /\ pass'.next = pass.next + 1
                   /\ pass'.statements
                          = pass.statements \o result.additional_statements
                                \o <<ExpressionStatement(result.expression)>>]_vars

\* the Call nodes of the statements' initializers: arguments before the call,
\* left to right, statement by statement
CallsOf(statements) ==
    SelectSeq(PostOrderOfAll([i \in 1..Len(statements) |-> statements[i].value]),
              LAMBDA node : node.head = "Call")

\* how many times the expressions read the variable name
RECURSIVE AccessesIn(_, _)
AccessesIn(expressions, name) ==
    IF expressions = <<>> THEN 0
    ELSE LET e == Head(expressions)
             here ==
                 CASE e.type = "VariableAccess" -> IF e.name = name THEN 1 ELSE 0
                   [] e.type = "UnaryOp" -> AccessesIn(<<e.operand>>, name)
                   [] e.type = "BinaryOp" -> AccessesIn(<<e.left, e.right>>, name)
                   [] e.type = "Call" -> AccessesIn(e.args, name)
                   [] OTHER -> 0
         IN  here + AccessesIn(Tail(expressions), name)

\* the position in the output of the declaration that ends the statements
\* emitted for the first k input declarations
RECURSIVE GroupEnd(_, _)
GroupEnd(statements, k) ==
    IF k = 0 THEN 0
    ELSE GroupEnd(statements, k - 1) + Len(ExpectedDeclarations(statements[k]))

\* C21: every call of the input, also one that is the whole initializer of a
\* declaration, is the initializer of its own temporary declaration, which is
\* read exactly once afterwards, at the call's site; a Call occurs in the
\* output only as the initializer of a temporary, with atoms as arguments, and
\* the Calls of the output are those of the input in left-to-right post-order.
C21_CallsBoundToTemporaries ==
    LET input == SubSeq(pass.program.statements, 1, pass.next - 1)
        output == pass.statements
        values(first, last) == [j \in 1..(last - first + 1) |->
                                    output[first + j - 1].value]
    IN  /\ Len(output) = GroupEnd(input, Len(input))
        /\ CallsOf(output) = CallsOf(input)
        /\ normalized # None => normalized[1].statements = output
        /\ \A k \in 1..Len(input) :
               LET first == GroupEnd(input, k - 1) + 1
                   last == GroupEnd(input, k)
               IN  /\ output[last].name = input[k].name
                   /\ CallsOf(<<output[last]>>) = <<>>
                   /\ input[k].value.type = "Call" =>
                          /\ output[last - 1].value.type = "Call"
                          /\ output[last - 1].value.name = input[k].value.name
                          /\ output[last].value
                                 = VariableAccess(output[last - 1].name)
                   /\ \A i \in first..(last - 1) :
                          /\ output[i].name = TmpPrefix \o Decimal(i - k)
                          /\ CallsOf(<<output[i]>>) # <<>> =>
                                 /\ output[i].value.type = "Call"
                                 /\ \A a \in 1..Len(output[i].value.args) :
                                        IsAtom(output[i].value.args[a])
                                 /\ AccessesIn(values(i + 1, last),
                                               output[i].name) = 1

\* a call with a call as argument is the whole initializer of a declaration
C21_Witness ==
    /\ normalized # None
    /\ \E k \in 1..Len(pass.program.statements) :
           LET value == pass.program.statements[k].value
           IN  /\ value.type = "Call"
               /\ Len(value.args) >= 1
               /\ value.args[1].type = "Call"
    /\ Len(CallsOf(normalized[1].statements)) >= 2

\* the variables a run has bound, by name
Bound(env, name, value) ==
    [n \in (DOMAIN env) \cup {name} |-> IF n = name THEN value ELSE env[n]]

\* the value of a call-free expression under env, in 64-bit arithmetic
RECURSIVE ValueOf(_, _)
ValueOf(e, env) ==
    CASE e.type = "Constant" -> e.value
      [] e.type = "VariableAccess" -> env[e.name]
      [] e.type = "UnaryOp" -> I64Neg(ValueOf(e.operand, env)).value
      [] e.type = "BinaryOp" ->
            IF e.operator = "Add"
            THEN I64Add(ValueOf(e.left, env), ValueOf(e.right, env)).value
            ELSE I64Sub(ValueOf(e.left, env), ValueOf(e.right, env)).value

\* the declarations executed in order: each binds its name to the value of
\* its initializer
RECURSIVE Executed(_, _)
Executed(statements, env) ==
    IF statements = <<>> THEN env
    ELSE Executed(Tail(statements),
                  Bound(env, Head(statements).name,
                        ValueOf(Head(statements).value, env)))

\* declarations only, no call, every variable read declared by an earlier
\* statement, no declared name of the form tmp_<number>
WellScoped(statements) ==
    \A k \in 1..Len(statements) :
        /\ statements[k].type = "VariableDeclaration"
        /\ ~IsTmpName(statements[k].name)
        /\ CallsOf(<<statements[k]>>) = <<>>
        /\ \A name \in {Name("x"), Name("y"), Name("z"), Tmp(0)} :
               AccessesIn(<<statements[k].value>>, name) > 0 =>
                   \E j \in 1..(k - 1) : statements[j].name = name

\* C25: for a call-free module in which every variable access refers to an
\* earlier declaration and no user name has the form tmp_<number>, executing
\* the output of the ANF pass statement by statement gives every user
\* variable the value that executing the input gives it, after each input
\* statement; every temporary is declared before the single place that
\* reads it.
C25_OutputComputesSameValues ==
    LET input == SubSeq(pass.program.statements, 1, pass.next - 1)
        output == pass.statements
        values(first, last) == [j \in 1..(last - first + 1) |->
                                    output[first + j - 1].value]
    IN  WellScoped(input) =>
            /\ Len(output) = GroupEnd(input, Len(input))
            /\ normalized # None => normalized[1].statements = output
            /\ \A k \in 1..Len(input) :
                   LET before == Executed(SubSeq(input, 1, k), <<>>)
                       after == Executed(SubSeq(output, 1, GroupEnd(input, k)),
                                         <<>>)
                   IN  /\ output[GroupEnd(input, k)].name = input[k].name
                       /\ \A i \in (GroupEnd(input, k - 1) + 1)
                                      ..(GroupEnd(input, k) - 1) :
                              /\ IsTmpName(output[i].name)
                              /\ AccessesIn(values(1, i), output[i].name) = 0
                              /\ AccessesIn(values(i + 1, Len(output)),
                                            output[i].name) = 1
                       /\ \A name \in DOMAIN before : after[name] = before[name]

\* y = 3, then z computed from y through a temporary
C25_Witness ==
    /\ normalized # None
    /\ WellScoped(pass.program.statements)
    /\ Len(pass.program.statements) = 2
    /\ AccessesIn(<<pass.program.statements[2].value>>, Name("y")) > 0
    /\ Len(normalized[1].statements) = 3
    /\ Executed(normalized[1].statements, <<>>)[Name("z")] = I64(3)

-----------------------------------------------------------------------------
(***************************************************************************)
(* Properties of the code generator.                                       *)
(***************************************************************************)
\* N: the variable-declaration statements of the module given to generate
DeclarationCount ==
    Cardinality({ i \in 1..Len(codegen.program.statements) :
                      codegen.program.statements[i].type = "VariableDeclaration" })

DigitValue(c) == CHOOSE d \in 0..9 : DigitChars[d + 1] = c

RECURSIVE ParseDecimal(_)
ParseDecimal(text) ==
    IF text = <<>> THEN 0
    ELSE 10 * ParseDecimal(SubSeq(text, 1, Len(text) - 1))
             + DigitValue(text[Len(text)])

\* `sub rsp, <digits>`
IsSubRspLine(line) ==
    /\ Len(line) > 9
    /\ SubSeq(line, 1, 9) = <<"s", "u", "b", " ", "r", "s", "p", ",", " ">>
    /\ \A i \in 10..Len(line) : IsDigit(line[i])

Amount(line) == ParseDecimal(SubSeq(line, 10, Len(line)))

\* (4N + 15) rounded down to a multiple of 16
ClaimedAmount == ((4 * DeclarationCount + 15) \div 16) * 16

ReservesClaimedAmount(line) ==
    /\ IsSubRspLine(line)
    /\ Amount(line) = ClaimedAmount
    /\ Amount(line) % 16 = 0
    /\ Amount(line) >= 4 * DeclarationCount

\* C10: for a module with N declarations the stack reservation generate
\* computes, and the listing it returns, hold directly after the six prologue
\* lines exactly one line `sub rsp, A` when N > 0, with A = (4N + 15) rounded
\* down to a multiple of 16, A % 16 = 0 and A >= 4N, and no `sub rsp` line
\* when N = 0; three declarations reserve 16.
C10_StackReservationAligned ==
    /\ codegen.stack_space_allocation # None =>
           IF DeclarationCount > 0
           THEN /\ Len(codegen.stack_space_allocation[1]) = 1
                /\ ReservesClaimedAmount(codegen.stack_space_allocation[1][1])
           ELSE codegen.stack_space_allocation[1] = <<>>
    /\ instructions # None =>
           /\ Len(instructions[1]) >= 6
           /\ IF DeclarationCount > 0
              THEN /\ ReservesClaimedAmount(instructions[1][7])
                   /\ \A i \in 1..Len(instructions[1]) :
                          IsSubRspLine(instructions[1][i]) => i = 7
              ELSE \A i \in 1..Len(instructions[1]) :
                       ~IsSubRspLine(instructions[1][i])
    /\ (instructions # None /\ codegen.program.statements = ThreeDeclarations)
           => instructions[1][7] = <<"s", "u", "b", " ", "r", "s", "p", ",", " ", "1", "6">>

C10_Witness ==
    /\ instructions # None
    /\ DeclarationCount = 5
    /\ instructions[1][6] = <<"m", "o", "v", " ", "r", "b", "p", ",", " ", "r", "s", "p">>
    /\ instructions[1][7] = <<"s", "u", "b", " ", "r", "s", "p", ",", " ", "3", "2">>

\* the decimal text of the constants the generated modules use
ConstantText(value) ==
    CASE value = I64(4) -> <<"4">>
      [] value = I64(42) -> <<"4", "2">>
      [] value = I64(127) -> <<"1", "2", "7">>
      [] value = I64(-42) -> <<"-", "4", "2">>
      [] value = I64Max ->
             <<"9", "2", "2", "3", "3", "7", "2", "0", "3", "6", "8", "5", "4", "7", "7", "5", "8", "0", "7">>

\* the position of the first `]` of a line, 0 when it has none
ClosingBracket(line) ==
    IF \E i \in 1..Len(line) : line[i] = "]"
    THEN CHOOSE i \in 1..Len(line) :
             line[i] = "]" /\ \A j \in 1..(i - 1) : line[j] # "]"
    ELSE 0

\* `mov dword [rbp - <offset>], <text>`
IsStoreLine(line, offset, text) ==
    LET close == ClosingBracket(line)
    IN  /\ close > 18
        /\ SubSeq(line, 1, 17) = <<"m", "o", "v", " ", "d", "w", "o", "r", "d", " ", "[", "r", "b", "p", " ", "-", " ">>
        /\ \A i \in 18..(close - 1) : IsDigit(line[i])
        /\ line[18] # "0"
        /\ ParseDecimal(SubSeq(line, 18, close - 1)) = offset
        /\ SubSeq(line, close, Len(line)) = <<"]", ",", " ">> \o text

\* a module of variable declarations with constant initializers
ConstantDeclarations(statements) ==
    \A i \in 1..Len(statements) :
        /\ statements[i].type = "VariableDeclaration"
        /\ statements[i].value.type = "Constant"

PrologueLines ==
    << <<"g", "l", "o", "b", "a", "l", " ", "m", "a", "i", "n">>,
       <<"e", "x", "t", "e", "r", "n", " ", "p", "r", "i", "n", "t", "_", "i", "n", "t">>,
       <<"s", "e", "c", "t", "i", "o", "n", " ", ".", "t", "e", "x", "t">>,
       <<"m", "a", "i", "n", ":">>,
       <<"p", "u", "s", "h", " ", "r", "b", "p">>,
       <<"m", "o", "v", " ", "r", "b", "p", ",", " ", "r", "s", "p">> >>

EpilogueLines ==
    << <<"m", "o", "v", " ", "r", "s", "p", ",", " ", "r", "b", "p">>,
       <<"p", "o", "p", " ", "r", "b", "p">>,
       <<"x", "o", "r", " ", "r", "a", "x", ",", " ", "r", "a", "x">>,
       <<"r", "e", "t">> >>

\* the lines of a returned listing between the prologue (and the stack
\* reservation, when there is one) and the epilogue
StatementLines(listing, reserved) ==
    SubSeq(listing, 7 + reserved, Len(listing) - 4)

\* C11: in a module of variable declarations with constant initializers the
\* k-th declaration in program order is emitted as the single line
\* `mov dword [rbp - 4k], v`, the lines follow program order, and the listing
\* returned is prologue, stack reservation, these lines, epilogue; the
\* declarations 4, 42, 127 give offsets 4, 8, 12 after `sub rsp, 16`.
C11_DeclarationsInProgramOrder ==
    /\ ConstantDeclarations(codegen.program.statements) =>
           /\ pc # "panic"
           /\ Len(codegen.program_instructions) = codegen.next - 1
           /\ \A k \in 1..(codegen.next - 1) :
                  IsStoreLine(codegen.program_instructions[k], 4 * k,
                              ConstantText(
                                  codegen.program.statements[k].value.value))
           /\ instructions # None =>
                  LET reserved ==
                          IF codegen.program.statements = <<>> THEN 0 ELSE 1
                      listing == instructions[1]
                  IN  /\ Len(listing)
                             = 10 + reserved + Len(codegen.program.statements)
                      /\ SubSeq(listing, 1, 6) = PrologueLines
                      /\ reserved = 1 => IsSubRspLine(listing[7])
                      /\ StatementLines(listing, reserved)
                             = codegen.program_instructions
                      /\ codegen.next = Len(codegen.program.statements) + 1
                      /\ SubSeq(listing, Len(listing) - 3, Len(listing))
                             = EpilogueLines
    /\ (instructions # None /\ codegen.program.statements = ThreeDeclarations)
           => instructions[1]
                  = PrologueLines
                        \o << <<"s", "u", "b", " ", "r", "s", "p", ",", " ", "1", "6">>,
                              <<"m", "o", "v", " ", "d", "w", "o", "r", "d", " ", "[", "r", "b", "p", " ", "-", " ", "4", "]", ",", " ", "4">>,
                              <<"m", "o", "v", " ", "d", "w", "o", "r", "d", " ", "[", "r", "b", "p", " ", "-", " ", "8", "]", ",", " ", "4", "2">>,
                              <<"m", "o", "v", " ", "d", "w", "o", "r", "d", " ", "[", "r", "b", "p", " ", "-", " ", "1", "2", "]", ",", " ", "1", "2", "7">> >>
                        \o EpilogueLines

\* five declarations, `foo` declared again after `bar`
C11_Witness ==
    /\ instructions # None
    /\ ConstantDeclarations(codegen.program.statements)
    /\ Len(codegen.program.statements) = 5
    /\ codegen.program.statements[1].name = Foo
    /\ codegen.program.statements[2].name = Bar
    /\ codegen.program.statements[3].name = Foo
    /\ codegen.program.statements[5].value = Constant(I64Max)
    /\ instructions[1][12]
           = <<"m", "o", "v", " ", "d", "w", "o", "r", "d", " ", "[", "r", "b", "p", " ", "-", " ", "2", "0", "]", ",", " ", "9", "2", "2", "3", "3", "7", "2", "0", "3", "6", "8", "5", "4", "7", "7", "5", "8", "0", "7">>


\* the number of lines the generator emits for a statement it can emit
LineCount(statement) ==
    IF statement.type = "VariableDeclaration" THEN 1
    ELSE IF statement.expression.args[1].type = "Constant" THEN 2
    ELSE 3

RECURSIVE LinesBefore(_, _)
\* the lines emitted for the statements before the k-th
LinesBefore(statements, k) ==
    IF k = 1 THEN 0
    ELSE LinesBefore(statements, k - 1) + LineCount(statements[k - 1])

\* the statements before the k-th that declare name
DeclarationsOf(statements, k, name) ==
    { j \in 1..(k - 1) : /\ statements[j].type = "VariableDeclaration"
                         /\ statements[j].name = name }

\* the offset assigned by the most recent declaration of name before the
\* k-th statement: 4 for each declaration up to and including that one
MostRecentOffset(statements, k, name) ==
    LET last == CHOOSE j \in DeclarationsOf(statements, k, name) :
                    \A i \in DeclarationsOf(statements, k, name) : i <= j
    IN  4 * Cardinality({ i \in 1..last :
                              statements[i].type = "VariableDeclaration" })

\* a call with exactly one argument, a constant
IsConstantCall(statement) ==
    /\ statement.type = "Expression"
    /\ statement.expression.type = "Call"
    /\ Len(statement.expression.args) = 1
    /\ statement.expression.args[1].type = "Constant"

\* a call with exactly one argument, an access to a variable that a
\* statement before the k-th declared
IsVariableCall(statements, k) ==
    /\ statements[k].type = "Expression"
    /\ statements[k].expression.type = "Call"
    /\ Len(statements[k].expression.args) = 1
    /\ statements[k].expression.args[1].type = "VariableAccess"
    /\ DeclarationsOf(statements, k,
                      statements[k].expression.args[1].name) # {}

\* `mov dword rax, [rbp - <offset>]`
IsLoadLine(line, offset) ==
    /\ Len(line) > 23
    /\ SubSeq(line, 1, 22) = <<"m", "o", "v", " ", "d", "w", "o", "r", "d", " ", "r", "a", "x", ",", " ", "[", "r", "b", "p", " ", "-", " ">>
    /\ \A i \in 23..(Len(line) - 1) : IsDigit(line[i])
    /\ line[23] # "0"
    /\ line[Len(line)] = "]"
    /\ ParseDecimal(SubSeq(line, 23, Len(line) - 1)) = offset

\* C12: an expression statement that is a call f(arg) with exactly one
\* argument is emitted as `mov dword rdi, v`, `call f` when arg is the
\* constant v, and as `mov dword rax, [rbp - off]`, `mov dword rdi, rax`,
\* `call f` when arg is an access to a variable declared by an earlier
\* statement, off being the offset its most recent declaration assigned;
\* generate does not abort at such a statement.
C12_CallWithOneArgument ==
    LET statements == codegen.program.statements
        lines == codegen.program_instructions
    IN  /\ \A k \in 1..(codegen.next - 1) :
               LET first == LinesBefore(statements, k) + 1
                   f == statements[k].expression.name
               IN  /\ IsConstantCall(statements[k]) =>
                          /\ lines[first]
                                 = <<"m", "o", "v", " ", "d", "w", "o", "r", "d", " ", "r", "d", "i", ",", " ">>
                                       \o ConstantText(
                                              statements[k].expression.args[1].value)
                          /\ lines[first + 1] = <<"c", "a", "l", "l", " ">> \o f
                          /\ LinesBefore(statements, k + 1) = first + 1
                   /\ IsVariableCall(statements, k) =>
                          /\ IsLoadLine(lines[first],
                                        MostRecentOffset(
                                            statements, k,
                                            statements[k].expression.args[1].name))
                          /\ lines[first + 1]
                                 = <<"m", "o", "v", " ", "d", "w", "o", "r", "d", " ", "r", "d", "i", ",", " ", "r", "a", "x">>
                          /\ lines[first + 2] = <<"c", "a", "l", "l", " ">> \o f
                          /\ LinesBefore(statements, k + 1) = first + 2
        /\ Len(lines) = LinesBefore(statements, codegen.next)
        /\ (pc = "panic" /\ codegen.next <= Len(statements)) =>
               /\ ~IsConstantCall(statements[codegen.next])
               /\ ~IsVariableCall(statements, codegen.next)
        /\ (instructions # None /\ statements = CallWithConstant)
               => instructions[1]
                      = PrologueLines
                            \o << <<"m", "o", "v", " ", "d", "w", "o", "r", "d", " ", "r", "d", "i", ",", " ", "4">>,
                                  <<"c", "a", "l", "l", " ", "p", "r", "i", "n", "t", "_", "i", "n", "t">> >>
                            \o EpilogueLines

\* foo, bar, foo again, then print_int(foo) reads foo's newer slot, then
\* print_int(-42)
C12_Witness ==
    /\ instructions # None
    /\ Len(codegen.program.statements) = 5
    /\ ConstantDeclarations(SubSeq(codegen.program.statements, 1, 3))
    /\ codegen.program.statements[1].name = Foo
    /\ codegen.program.statements[2].name = Bar
    /\ codegen.program.statements[3].name = Foo
    /\ IsVariableCall(codegen.program.statements, 4)
    /\ IsConstantCall(codegen.program.statements[5])
    /\ SubSeq(instructions[1], 11, 15)
           = << <<"m", "o", "v", " ", "d", "w", "o", "r", "d", " ", "r", "a", "x", ",", " ", "[", "r", "b", "p", " ", "-", " ", "1", "2", "]">>,
                <<"m", "o", "v", " ", "d", "w", "o", "r", "d", " ", "r", "d", "i", ",", " ", "r", "a", "x">>,
                <<"c", "a", "l", "l", " ", "p", "r", "i", "n", "t", "_", "i", "n", "t">>,
                <<"m", "o", "v", " ", "d", "w", "o", "r", "d", " ", "r", "d", "i", ",", " ", "-", "4", "2">>,
                <<"c", "a", "l", "l", " ", "p", "r", "i", "n", "t", "_", "i", "n", "t">> >>


\* the k-th statement is one the generator cannot emit
CannotEmit(statements, k) ==
    LET statement == statements[k]
    IN  IF statement.type = "VariableDeclaration"
        THEN statement.value.type # "Constant"
        ELSE \/ statement.expression.type # "Call"
             \/ /\ statement.expression.type = "Call"
                /\ \/ Len(statement.expression.args) # 1
                   \/ /\ Len(statement.expression.args) = 1
                      /\ \/ ~IsAtom(statement.expression.args[1])
                         \/ /\ statement.expression.args[1].type
                                   = "VariableAccess"
                            /\ DeclarationsOf(
                                   statements, k,
                                   statement.expression.args[1].name) = {}

IsPrefix(s, t) == Len(s) <= Len(t) /\ s = SubSeq(t, 1, Len(s))

\* C13: when the generator meets a statement it cannot emit (a declaration
\* whose initializer is not a constant, an expression statement that is not
\* a call, a call with a number of arguments other than 1, a call argument
\* that is not an atom, an access to a variable no earlier statement
\* declared), generation aborts and returns no listing: the generator never
\* gets past such a statement; and main creates and writes the assembly file
\* only after generate has returned, so what the file holds is always a
\* prefix of a complete listing and nothing is written after an abort.
C13_NoPartialAssembly ==
    LET statements == codegen.program.statements
    IN  /\ \A k \in 1..Len(statements) :
               CannotEmit(statements, k) =>
                   /\ codegen.next <= k
                   /\ instructions = None
                   /\ file = None
        /\ pc = "panic" => instructions = None /\ file = None
        /\ file # None =>
               /\ instructions # None
               /\ pc \notin {"generate", "panic"}
               /\ IsPrefix(file[1], instructions[1])

\* two statements emitted, the third aborts generation, no file
C13_Witness ==
    /\ pc = "panic"
    /\ codegen.next = 3
    /\ CannotEmit(codegen.program.statements, 3)
    /\ Len(codegen.program_instructions) >= 2
    /\ instructions = None
    /\ file = None


-----------------------------------------------------------------------------
(***************************************************************************)
(* Stack offsets in the listing.                                           *)
(***************************************************************************)
\* the position in a line of the first digit of a `[rbp - <digits>]`
\* operand, 0 when the line has no such operand
OperandStart(line) ==
    LET brackets == { i \in 1..Len(line) : line[i] = "[" }
    IN  IF brackets = {} THEN 0
        ELSE LET first == CHOOSE i \in brackets : \A k \in brackets : i <= k
             IN  IF SubSeq(line, first, first + 6)
                        = <<"[", "r", "b", "p", " ", "-", " ">>
                 THEN first + 7
                 ELSE 0

\* what a line says about the stack: where its operand starts, and the
\* offset the operand names when it is a number (-1 when it is not)
SlotOf(line) ==
    LET start == OperandStart(line)
        closing == { k \in start..Len(line) : line[k] = "]" }
        close == CHOOSE k \in closing : \A other \in closing : k <= other
    IN  IF start = 0 THEN [start |-> 0, offset |-> -1]
        ELSE [start |-> start,
              offset |-> IF /\ closing # {}
                            /\ close > start
                            /\ \A k \in start..(close - 1) : IsDigit(line[k])
                         THEN ParseDecimal(SubSeq(line, start, close - 1))
                         ELSE -1]

\* the line stores into a slot: `mov dword [rbp - ...`
StoresToSlot(slot) == slot.start = 18

\* every operand of the lines is a multiple of 4 from 4 up to the amount
\* reserved, and no two stores name the same offset
OffsetsInFrame(lines, reserved) ==
    LET slots == CHOOSE all \in { [i \in 1..Len(lines) |-> SlotOf(lines[i])] } :
                     TRUE
    IN  /\ \A i \in 1..Len(lines) :
               slots[i].start # 0 =>
                   /\ slots[i].offset % 4 = 0
                   /\ 4 <= slots[i].offset
                   /\ Len(reserved) = 1
                   /\ IsSubRspLine(reserved[1])
                   /\ slots[i].offset <= Amount(reserved[1])
        /\ \A i, j \in 1..Len(lines) :
               (i # j /\ StoresToSlot(slots[i]) /\ StoresToSlot(slots[j]))
                   => slots[i].offset # slots[j].offset

\* C26: in every listing generate returns each offset of a `[rbp - off]`
\* operand is a multiple of 4 with 4 <= off <= A, A the amount of the
\* `sub rsp, A` line, and two declaration statements never get the same
\* offset, also when they declare one name.
C26_OffsetsInsideFrame ==
    pc = "generated" =>
        /\ OffsetsInFrame(instructions[1],
                          SelectSeq(instructions[1], IsSubRspLine))
        /\ Cardinality({ i \in 1..Len(instructions[1]) :
                             StoresToSlot(SlotOf(instructions[1][i])) })
               = DeclarationCount

\* foo declared twice and then read: stores at 4 and 8, the load from 8
C26_Witness ==
    /\ pc = "generated"
    /\ Len(codegen.program.statements) = 3
    /\ codegen.program.statements[1].type = "VariableDeclaration"
    /\ codegen.program.statements[2].type = "VariableDeclaration"
    /\ codegen.program.statements[1].name = codegen.program.statements[2].name
    /\ codegen.program.statements[3].type = "Expression"
    /\ SlotOf(instructions[1][8]) = [start |-> 18, offset |-> 4]
    /\ SlotOf(instructions[1][9]) = [start |-> 18, offset |-> 8]
    /\ SlotOf(instructions[1][10]) = [start |-> 23, offset |-> 8]

\* the text of the immediate operand of a `mov dword` line, <<>> when the
\* line is not a `mov dword` or its source operand is a register or a slot
ImmediateOf(line) ==
    LET comma == { k \in 1..(Len(line) - 1) : line[k] = "," /\ line[k + 1] = " " }
        operand == SubSeq(line, 2 + (CHOOSE k \in comma : TRUE), Len(line))
    IN  IF /\ Len(line) > 10
           /\ SubSeq(line, 1, 10) = <<"m", "o", "v", " ", "d", "w", "o", "r", "d", " ">>
           /\ Cardinality(comma) = 1
           /\ operand # <<>>
           /\ (operand[1] = "-" \/ IsDigit(operand[1]))
        THEN operand
        ELSE <<>>

\* digits, of equal length, are at most limit as numbers
AtMost(digits, limit) ==
    \/ digits = limit
    \/ \E i \in 1..Len(digits) :
           /\ SubSeq(digits, 1, i - 1) = SubSeq(limit, 1, i - 1)
           /\ DigitValue(digits[i]) < DigitValue(limit[i])

\* the decimal text names a value from -2^31 to 2^31 - 1
FitsDword(text) ==
    LET negative == text[1] = "-"
        digits == IF negative THEN Tail(text) ELSE text
    IN  /\ digits # <<>>
        /\ \A i \in 1..Len(digits) : IsDigit(digits[i])
        /\ \/ Len(digits) < 10
           \/ /\ Len(digits) = 10
              /\ AtMost(digits,
                        IF negative
                        THEN <<"2", "1", "4", "7", "4", "8", "3", "6", "4", "8">>
                        ELSE <<"2", "1", "4", "7", "4", "8", "3", "6", "4", "7">>)

\* C28: every immediate operand the generator writes in a `mov dword`
\* instruction, the constant initializer of a declaration or a constant call
\* argument, lies within the signed 32-bit range.
C28_ImmediatesFitDword ==
    \A i \in 1..Len(codegen.program_instructions) :
        ImmediateOf(codegen.program_instructions[i]) # <<>> =>
            FitsDword(ImmediateOf(codegen.program_instructions[i]))

\* the same for modules whose constants are within the signed 32-bit range
SmallImmediatesFitDword ==
    (\A k \in 1..Len(codegen.program.statements) :
         LET statement == codegen.program.statements[k]
             constants ==
                 IF statement.type = "VariableDeclaration"
                 THEN <<statement.value>>
                 ELSE IF statement.expression.type = "Call"
                 THEN statement.expression.args
                 ELSE <<>>
         IN  \A a \in 1..Len(constants) :
                 constants[a].type = "Constant" =>
                     constants[a].value \in {I64(4), I64(42), I64(127), I64(-42)})
        => C28_ImmediatesFitDword

\* immediates have been written for a declaration and for a call argument
SmallImmediatesWritten ==
    /\ pc = "generated"
    /\ \E i, j \in 1..Len(codegen.program_instructions) :
           /\ ImmediateOf(codegen.program_instructions[i]) = <<"4">>
           /\ ImmediateOf(codegen.program_instructions[j]) = <<"-", "4", "2">>

-----------------------------------------------------------------------------
(***************************************************************************)
(* Properties of the tokenizer.                                            *)
(***************************************************************************)
\* whitespace, punctuation and operator characters, digits, letters and
\* underscore (no string literal, and no ':', which needs a second character)
RecognizedChars ==
    {" ", "\t", "\n", "\r", "(", ")", "{", "}", ",", ".", "+", "*", "/", ";",
     "-", "!", "=", ">", "<"}
        \cup {DigitChars[i] : i \in 1..10} \cup LowerCase \cup UpperCase \cup {"_"}

\* C1: for a source made only of characters the lexer recognizes, tokenize
\* does not abort, and the last token of what it returns is Eof, also when
\* the source ends right after one of - ! = > <.
C1_TokenizeTotal ==
    (\A i \in 1..Len(source) : source[i] \in RecognizedChars)
        => /\ pc # "panic"
           /\ lexed # None => lexed[1][Len(lexed[1])].type = "Eof"

\* the start offset a token records: the second component of its location
Start(token) == token.location[2]

\* C14: in the token sequence tokenize returns, the recorded start offset of
\* every token is strictly smaller than that of the token after it, the pair
\* of the last real token and Eof included.
C14_TokenStartsIncrease ==
    lexed # None =>
        \A i \in 1..(Len(lexed[1]) - 1) :
            Start(lexed[1][i]) < Start(lexed[1][i + 1])

\* the same for the pairs of real tokens only
RealTokenStartsIncrease ==
    \A i \in 1..(Len(tokenizer.tokens) - 1) :
        tokenizer.tokens[i + 1].type # "Eof" =>
            Start(tokenizer.tokens[i]) < Start(tokenizer.tokens[i + 1])


\* the characters of the source a token covers
Lexeme(token) == SubSeq(source, Start(token) + 1, Start(token) + token.length)

\* the token is the maximal run, from its first character, of characters
\* of a class
IsMaximalRun(token, class) ==
    /\ token.length >= 1
    /\ Start(token) + token.length <= Len(source)
    /\ \A i \in 1..token.length : Lexeme(token)[i] \in class
    /\ Start(token) + token.length < Len(source) =>
           source[Start(token) + token.length + 1] \notin class

LettersAndUnderscore == LowerCase \cup UpperCase \cup {"_"}

DecimalDigits == {"0", "1", "2", "3", "4", "5", "6", "7", "8", "9"}

\* C15: an identifier or keyword token is the maximal run of letters and
\* underscores beginning at its first character and never contains a digit
\* (`tmp_0` is identifier `tmp_` followed by number `0`); its kind is Keyword
\* exactly when the whole lexeme is `let` or `const`; a number token is the
\* maximal run of decimal digits; the literal of each is exactly the lexeme.
C15_IdentifiersAndNumbers ==
    /\ \A i \in 1..Len(tokenizer.tokens) :
           LET token == tokenizer.tokens[i]
           IN  /\ token.type \in {"Identifier", "Keyword(Let)", "Keyword(Const)"} =>
                      /\ IsMaximalRun(token, LettersAndUnderscore)
                      /\ \A j \in 1..Len(token.literal_value) :
                             ~IsDigit(token.literal_value[j])
                      /\ token.literal_value = Lexeme(token)
                      /\ token.type = "Keyword(Let)"
                             <=> Lexeme(token) = <<"l", "e", "t">>
                      /\ token.type = "Keyword(Const)"
                             <=> Lexeme(token) = <<"c", "o", "n", "s", "t">>
               /\ token.type = "Number" =>
                      /\ IsMaximalRun(token, DecimalDigits)
                      /\ token.literal_value = Lexeme(token)
    /\ (lexed # None /\ source = TmpZero) =>
           /\ Len(lexed[1]) = 3
           /\ lexed[1][1].type = "Identifier"
           /\ lexed[1][1].literal_value = <<"t", "m", "p", "_">>
           /\ lexed[1][2].type = "Number"
           /\ lexed[1][2].literal_value = <<"0">>

\* `let const lets _let 12ab_34` lexed: two keywords, two identifiers that
\* contain a keyword, a number that ends at a letter, an identifier that ends
\* at a digit
C15_Witness ==
    /\ lexed # None
    /\ source = KeywordsAndNames
    /\ [i \in 1..Len(lexed[1]) |-> lexed[1][i].type]
           = <<"Keyword(Let)", "Keyword(Const)", "Identifier", "Identifier",
               "Number", "Identifier", "Number", "Eof">>
    /\ lexed[1][6].literal_value = <<"a", "b", "_">>


\* the position of the first quote after the one at open that no backslash
\* precedes, 0 when the source has none
NextUnescapedQuote(open) ==
    LET closing == { j \in (open + 1)..Len(source) :
                         source[j] = "\"" /\ source[j - 1] # "\\" }
    IN  IF closing = {} THEN 0
        ELSE CHOOSE j \in closing : \A i \in closing : j <= i

\* the positions of the opening and of the closing quote of a String token
OpeningQuote(token) == Start(token) + 1
ClosingQuote(token) == Start(token) + token.length + 1

\* the position of the first character after the cursor that is not
\* whitespace, 0 when there is none: where the next token begins
NextTokenPosition ==
    LET rest == { j \in (tokenizer.cursor + 1)..Len(source) :
                      ~IsWhitespace(source[j]) }
    IN  IF rest = {} THEN 0
        ELSE CHOOSE j \in rest : \A i \in rest : j <= i

\* C16: on a `"` the lexer produces one String token that extends to the
\* next unescaped `"` (a quote preceded by a backslash does not end the
\* string), whose literal is the text between the two quotes; if the input
\* ends before a closing quote, tokenization aborts and returns no tokens.
C16_StringToken ==
    /\ \A i \in 1..Len(tokenizer.tokens) :
           LET token == tokenizer.tokens[i]
           IN  token.type = "String" =>
                   /\ source[OpeningQuote(token)] = "\""
                   /\ ClosingQuote(token)
                          = NextUnescapedQuote(OpeningQuote(token))
                   /\ token.literal_value
                          = SubSeq(source, OpeningQuote(token) + 1,
                                   ClosingQuote(token) - 1)
    /\ (pc = "panic" /\ NextTokenPosition # 0) =>
           (source[NextTokenPosition] = "\""
                => NextUnescapedQuote(NextTokenPosition) = 0)
    /\ lexed # None =>
           \A q \in 1..Len(source) :
               source[q] = "\"" =>
                   \E i \in 1..Len(lexed[1]) :
                       /\ lexed[1][i].type = "String"
                       /\ OpeningQuote(lexed[1][i]) <= q
                       /\ q <= ClosingQuote(lexed[1][i])


-----------------------------------------------------------------------------
(***************************************************************************)
(* Properties of the parser.                                               *)
(***************************************************************************)
\* C2: for every source the grammar derives (call arguments arbitrary
\* expressions, as in `print_int(4);`), parse on the tokenizer's output does
\* not abort.
C2_ParsesDerivedSources == source \notin Malformed => pc # "panic"

\* binding strength of the node at the root of a tree
Level(e) ==
    IF e.type = "BinaryOp"
    THEN (IF e.operator \in {"Add", "Sub"} THEN 1 ELSE 2)
    ELSE IF e.type = "UnaryOp" THEN 3
    ELSE 4

RECURSIVE ShapedByPrecedence(_)
\* every operand binds at least as tightly as its operator, a right operand
\* strictly tighter (chains fold to the left)
ShapedByPrecedence(e) ==
    CASE e.type = "BinaryOp" ->
            /\ Level(e.left) >= Level(e)
            /\ Level(e.right) > Level(e)
            /\ ShapedByPrecedence(e.left)
            /\ ShapedByPrecedence(e.right)
      [] e.type = "UnaryOp" ->
            Level(e.operand) >= 3 /\ ShapedByPrecedence(e.operand)
      [] OTHER -> TRUE

\* `let` declarations without parentheses: operators over atoms
OperatorSource ==
    /\ source # <<>>
    /\ source \notin Malformed
    /\ \A i \in 1..Len(source) :
           /\ source[i] \notin {"(", ")"}
           /\ (i = 1 \/ source[i - 1] = "\n") =>
                  /\ i + 3 <= Len(source)
                  /\ SubSeq(source, i, i + 3) = <<"l", "e", "t", " ">>

\* C3: an expression of unary -, * /, + - over atoms parses, without
\* aborting, to the tree in which unary - binds tighter than * and /, these
\* tighter than + and -, chains of one level fold to the left, and each of
\* add, subtract, multiply, divide is an operator of its own; the tree read
\* back gives the source; a - b - c is (a - b) - c, a + b * c is a + (b * c).
C3_PrecedenceAndAssociativity ==
    /\ OperatorSource =>
           /\ pc # "panic"
           /\ parsed # None =>
                  /\ \A i \in 1..Len(parsed[1].statements) :
                         ShapedByPrecedence(
                             StatementExpression(parsed[1].statements[i]))
                  /\ UnparseModule(parsed[1].statements) = source
    /\ (parsed # None /\ source = UnparseModule(SubtractTwice))
           => parsed[1].statements = SubtractTwice
    /\ (parsed # None /\ source = UnparseModule(AddProduct))
           => parsed[1].statements = AddProduct

\* the text written to stderr holds the fragment
Reports(fragment) == \E i \in 1..Len(diagnostic[1]) : diagnostic[1][i] = fragment

\* the line of a token: 1 plus the newlines before its first character
LineOf(token) ==
    1 + Cardinality({ j \in 1..Start(token) : source[j] = "\n" })

\* the column of a token, counted from 0: the characters between the start
\* of its line and its first character
ColumnOf(token) ==
    Cardinality({ j \in 1..Start(token) :
                      \A k \in j..Start(token) : source[k] # "\n" })

\* the panic of consume_required on a mismatch
RequiredKindMissing ==
    /\ diagnostic # None
    /\ diagnostic[1][1] = "Expected the following token: "

\* the panic of parse_primary where no expression can start
NoExpression == diagnostic # None /\ Reports("Expected expression")

\* C17: when the current token's kind is not the required one
\* (consume_required) or no expression can start at the current token
\* (parse_primary), parsing aborts at that first error without recovery, and
\* what it reports holds the line and the column (counted from 0 or from 1)
\* of a token of the actual kind, together with the expected and the actual
\* kind.
C17_ParseErrorReported ==
    (RequiredKindMissing \/ NoExpression) =>
        /\ pc = "panic"
        /\ parsed = None
        /\ \E i \in 1..Len(lexed[1]) :
               LET token == lexed[1][i]
               IN  /\ Reports(token.type)
                   /\ Reports(ToString(LineOf(token)))
                   /\ \/ Reports(ToString(ColumnOf(token)))
                      \/ Reports(ToString(ColumnOf(token) + 1))
        /\ RequiredKindMissing =>
               /\ Len(diagnostic[1]) = 5
               /\ \E i \in 1..Len(lexed[1]) : lexed[1][i].type = diagnostic[1][4]
        /\ NoExpression => ~RequiredKindMissing

\* the same without the position
KindsReported ==
    RequiredKindMissing =>
        /\ pc = "panic"
        /\ parsed = None
        /\ diagnostic[1][2]
               \in {"Identifier", "Equals", "Semicolon", "ParenthesesRight"}
        /\ \E i \in 1..Len(lexed[1]) : lexed[1][i].type = diagnostic[1][4]
        /\ diagnostic[1][2] # diagnostic[1][4]

-----------------------------------------------------------------------------
(***************************************************************************)
(* The parser's cursor.                                                    *)
(***************************************************************************)
\* the vector ends with an Eof token and has no other
EndsWithOneEof(tokens) ==
    /\ Len(tokens) >= 1
    /\ \A i \in 1..Len(tokens) : tokens[i].type = "Eof" <=> i = Len(tokens)

\* the panic of an index past the end of tokens
ReadOutOfBounds ==
    /\ diagnostic # None
    /\ diagnostic[1][1] = "index out of bounds: the len is "

\* the cursor, an index from 0, is on a token up to the Eof token; no read
\* was out of bounds; parse has returned only with the cursor on Eof
CursorUpToEof ==
    EndsWithOneEof(parser.tokens) =>
        /\ parser.cursor <= Len(parser.tokens) - 1
        /\ ~ReadOutOfBounds
        /\ parsed # None => parser.cursor = Len(parser.tokens) - 1

\* an iteration of the statement loop advances the cursor or aborts, and
\* the return leaves the parser as it is
IterationAdvances ==
    (pc = "parse" /\ EndsWithOneEof(parser.tokens)) =>
        \/ pc' = "panic" /\ diagnostic' # None
        \/ pc' = "parse" /\ parser'.cursor > parser.cursor
        \/ pc' = "parsed" /\ parser' = parser /\ parsed' # None

\* C27: for a token vector that ends with exactly one Eof token the cursor
\* never moves past the index of the Eof token, no parser operation consumes
\* Eof or reads tokens[cursor] out of bounds, every iteration of the
\* statement loop advances the cursor by at least one token or aborts, and
\* parse returns only when the cursor is on Eof.
C27_CursorStopsAtEof == []CursorUpToEof /\ [][IterationAdvances]_vars

\* after one statement the second one meets Eof where it requires `;`
C27_Witness ==
    /\ EndsWithOneEof(parser.tokens)
    /\ pc = "panic"
    /\ parser.cursor = 5
    /\ Len(parser.tokens) = 10
    /\ diagnostic = Some(<<"Expected the following token: ", "Semicolon",
                           ", but got ", "Eof", " instead">>)

-----------------------------------------------------------------------------
(***************************************************************************)
(* Positions recorded on tokens.                                           *)
(***************************************************************************)
\* the offset after the last character of a token: a String token's length
\* leaves out its closing quote
End(token) ==
    Start(token) + token.length + (IF token.type = "String" THEN 1 ELSE 0)

\* the i-th token records the offset of the first character of its lexeme:
\* only whitespace lies between the token before it and that offset, and the
\* lexeme is there
OffsetIsLexemeStart(i) ==
    LET token == tokenizer.tokens[i]
        before == IF i = 1 THEN 0 ELSE End(tokenizer.tokens[i - 1])
    IN  /\ before <= Start(token)
        /\ \A j \in (before + 1)..Start(token) : IsWhitespace(source[j])
        /\ Start(token) < Len(source)
        /\ ~IsWhitespace(source[Start(token) + 1])
        /\ IF token.type = "String"
           THEN /\ source[Start(token) + 1] = "\""
                /\ SubSeq(source, Start(token) + 2, End(token) - 1)
                       = token.literal_value
           ELSE Lexeme(token) = token.literal_value

\* a newline lies inside a String token before the i-th token
NewlineInEarlierString(i) ==
    \E k \in 1..(i - 1) :
        /\ tokenizer.tokens[k].type = "String"
        /\ \E j \in (Start(tokenizer.tokens[k]) + 1)..End(tokenizer.tokens[k]) :
               source[j] = "\n"

\* C22: the line recorded on each token is 1 plus the number of newlines
\* before the token's first character, those inside earlier string literals
\* included, and the offset recorded is that of the lexeme's first character.
C22_LineAndOffsetRecorded ==
    \A i \in 1..Len(tokenizer.tokens) :
        tokenizer.tokens[i].type # "Eof" =>
            /\ tokenizer.tokens[i].location[1] = LineOf(tokenizer.tokens[i])
            /\ OffsetIsLexemeStart(i)

\* the same when no earlier string literal holds a newline
LinesCountedOutsideStrings ==
    \A i \in 1..Len(tokenizer.tokens) :
        (tokenizer.tokens[i].type # "Eof" /\ ~NewlineInEarlierString(i)) =>
            /\ tokenizer.tokens[i].location[1] = LineOf(tokenizer.tokens[i])
            /\ OffsetIsLexemeStart(i)

\* the offsets alone, newlines in strings or not
OffsetsAreLexemeStarts ==
    \A i \in 1..Len(tokenizer.tokens) :
        tokenizer.tokens[i].type # "Eof" => OffsetIsLexemeStart(i)

-----------------------------------------------------------------------------
(***************************************************************************)
(* Properties of the driver's pipeline.                                    *)
(***************************************************************************)
\* the statement is a declaration whose initializer has neither a variable
\* access nor a call
PlainDeclaration(statement) ==
    /\ statement.type = "VariableDeclaration"
    /\ ~ContainsRuntime(statement.value)

\* an identifier that is not the name a `let` declares: a variable access or
\* the callee or argument of a call
ReadsIdentifier(tokens) ==
    \E i \in 1..Len(tokens) :
        /\ tokens[i].type = "Identifier"
        /\ i = 1 \/ tokens[i - 1].type # "Keyword(Let)"

\* generate has returned, or has no statement left and is about to
ListingProduced ==
    \/ instructions # None
    \/ file # None
    \/ /\ pc = "generate"
       /\ codegen.next > Len(codegen.program.statements)

\* C24: the pipeline tokenize, parse, partial-evaluate, ANF, codegen returns
\* a listing only if every statement of the source is a let declaration
\* whose initializer the partial evaluator folds to a single constant; a
\* source with an expression statement, a call or a variable access in an
\* initializer aborts before any listing is produced.
C24_ListingOnlyForConstantDeclarations ==
    /\ ListingProduced =>
           /\ parsed # None /\ evaluated # None /\ normalized # None
           /\ Len(evaluated[1].statements) = Len(parsed[1].statements)
           /\ \A i \in 1..Len(parsed[1].statements) :
                  /\ PlainDeclaration(parsed[1].statements[i])
                  /\ evaluated[1].statements[i].type = "VariableDeclaration"
                  /\ evaluated[1].statements[i].value.type = "Constant"
    /\ (/\ parsed # None
        /\ \E i \in 1..Len(parsed[1].statements) :
               ~PlainDeclaration(parsed[1].statements[i]))
           => ~ListingProduced
    /\ (lexed # None /\ ReadsIdentifier(lexed[1])) => ~ListingProduced

\* two declarations, one with an initializer that had to be folded, have
\* been compiled and the listing is written
C24_Witness ==
    /\ pc = "write"
    /\ file = instructions
    /\ Len(parsed[1].statements) = 2
    /\ \E i \in 1..2 : parsed[1].statements[i].value.type = "UnaryOp"

\* sources that abort: in the ANF pass on an expression statement, in the
\* generator on an initializer that reads a variable
AbortsOnExpressionStatement ==
    /\ pc = "panic"
    /\ evaluated # None /\ normalized = None
    /\ \E i \in 1..Len(parsed[1].statements) :
           parsed[1].statements[i].type = "Expression"

AbortsOnVariableInitializer ==
    /\ pc = "panic"
    /\ normalized # None /\ instructions = None
    /\ \E i \in 1..Len(parsed[1].statements) :
           /\ parsed[1].statements[i].type = "VariableDeclaration"
           /\ parsed[1].statements[i].value.type = "VariableAccess"

=============================================================================
